---- MODULE Spec2Model ----
(***************************************************************************)
(* photooxide: a photo library exposed as a read-only filesystem.          *)
(*                                                                         *)
(* The model covers the SQLite cache store (src/db/mod.rs and              *)
(* src/db/inode_db.rs), the filesystem operation layer                     *)
(* (src/photofs/mod.rs, src/photofs/utils.rs), the transport adapter's     *)
(* directory streaming and error codes (src/rust_filesystem/mod.rs,        *)
(* src/rust_filesystem/error.rs), the synchronizer's passes                *)
(* (src/background_update.rs) and the locks that the passes and the        *)
(* requests take on the store and on the remote library.                   *)
(***************************************************************************)
EXTENDS Integers, Sequences, FiniteSets, TLC

(***************************************************************************)
(* Bounds                                                                  *)
(***************************************************************************)
\* the stable-id counter is not advanced past this value
MaxInode == 103
\* the same, in the specifications of the filesystem layer
MaxSyncInode == 103
\* last_remote_check values are drawn from 1..MaxTime
MaxTime == 2
\* at most this many handles, of files and directories together, are open
\* at once
MaxOpen == 2
\* the stable-id counter's bound in the specification of listings
MaxListInode == 102
\* at most this many directory handles are open at once in that specification
MaxListings == 1
\* a directory reply has room for 1..MaxReply entries
MaxReply == 2
\* each job runs at most this many passes
MaxPasses == 1

\* handles open at a time, files and directories together, where requests
\* and faults are mixed
MaxFaultOpen == 1
\* the stable-id counter's bound where the store is opened again
MaxReopenInode == 102
\* the store is opened again at most this many times
MaxReopens == 2
\* the stable-id counter's bound in the specification of timestamps
MaxStampInode == 103
\* in that specification upserts are stamped with 1..MaxStampTime ticks
MaxStampTime == 3

(***************************************************************************)
(* Domain (src/domain.rs)                                                  *)
(***************************************************************************)
\* remote ids, listed in ascending (ORDER BY google_id) order
AlbumIds == <<"a1", "a2">>
MediaIds == <<"m1", "m2">>
GoogleIdSeq == AlbumIds \o MediaIds

SeqRange(s) == {s[i] : i \in DOMAIN s}

GoogleIds == SeqRange(GoogleIdSeq)

\* display names given by the remote library
Names == {"n1", "n2"}

Times == 1..MaxTime

MediaTypes == {"album", "media_item"}

\* the two background jobs that write to the store
Jobs == {"Albums", "Media Items"}

JobMediaType(j) == IF j = "Albums" THEN "album" ELSE "media_item"

JobIds(j) == IF j = "Albums" THEN SeqRange(AlbumIds) ELSE SeqRange(MediaIds)

\* a google_id with no row in albums_and_media_item
NoRow == [type |-> "none"]

\* a job that is not inside an upsert
NoCall == [type |-> "none"]

\* a job that has not run update() yet
IdleJob ==
    [pc |-> "idle", k |-> 0, r |-> 0, faulted |-> FALSE, outcome |-> "none",
     passes |-> 0]

\* a UtcDateTime is a number of ticks; the store keeps whole seconds
TicksPerSecond == 2

\* DateTime::timestamp: the whole seconds of a date-time
timestamp(t) == t \div TicksPerSecond

\* Utc::timestamp(&Utc, secs, 0): the date-time at a whole second
Utc_timestamp(secs) == secs * TicksPerSecond

PhotoDbMediaItemAlbum(id, name, media_type, last_remote_check, inode) ==
    [id |-> id, name |-> name, type |-> media_type,
     last_remote_check |-> last_remote_check, inode |-> inode]

(***************************************************************************)
(* State                                                                   *)
(***************************************************************************)
VARIABLES
    items,       \* table albums_and_media_item: google_id -> row
    in_album,    \* table media_items_in_album: set of <<album, media item>>
    next_inode,  \* table next_inode: its rows, in rowid order
    pending,     \* per job: the upsert that has its inode but no row yet
    allocated,   \* history: the values get_and_update_inode returned
    ever,        \* history: <<google_id, inode>> pairs upsert_x stored
    membership_result, \* upsert_media_item_in_album's result, if the last
                 \* step was that call
    open_files,  \* PhotoFs.open_files: fh -> ReadFhEntry
    open_dirs,   \* PhotoFs.open_dirs: fh -> ReadDirFhEntry
    reply,       \* the last filesystem reply
    job,         \* per background job: where its update() pass stands
    mutex,       \* per Mutex (the store's connection, the remote library):
                 \* the thread that holds it
    thread       \* per thread: the operation it runs and its position in
                 \* that operation's sequence of lock, call and unlock

dbvars == <<items, in_album, next_inode, pending, allocated, ever,
            membership_result>>

fsvars == <<open_files, open_dirs, reply>>

lockvars == <<mutex, thread>>

vars == <<items, in_album, next_inode, pending, allocated, ever,
          membership_result, open_files, open_dirs, reply, job, mutex,
          thread>>

\* reply holds the answer of the filesystem request served in the last step;
\* a step of a background job serves none
NoReply == [op |-> "none"]

\* no upsert_media_item_in_album call was made in the last step
NoResult == [called |-> FALSE]

NoFsRequest ==
    /\ reply' = NoReply
    /\ UNCHANGED <<open_files, open_dirs, lockvars>>

(***************************************************************************)
(* Cache store: stable-id counter (src/db/inode_db.rs)                     *)
(***************************************************************************)
\* ensure_schema: CREATE TABLE next_inode; INSERT ... VALUES (100)
FIRST_INODE_ROW == 100

\* variant: the counter advances by two
UpdateNextInodeByTwo(rows) == [i \in DOMAIN rows |-> rows[i] + 2]

\* UPDATE next_inode SET inode = inode + 1
UpdateNextInode(rows) == [i \in DOMAIN rows |-> rows[i] + 1]

\* SELECT inode FROM next_inode (query_row takes the first row)
SelectNextInode(rows) == rows[1]

\* the counter has not reached the bound max
CounterBelow(max) == SelectNextInode(next_inode) < max

\* variant: the allocator hands out the lowest id above the reserved range
\* that no row and no running upsert holds, so ids of replaced rows come back
AllocateInodeReuse ==
    LET held == {items[id].inode : id \in {g \in GoogleIds : items[g] # NoRow}}
                \cup {pending[j].inode : j \in {k \in Jobs : pending[k] # NoCall}}
        top == FIRST_INODE_ROW + Cardinality(held) + 1
        free == CHOOSE n \in (FIRST_INODE_ROW + 1)..top :
                    /\ n \notin held
                    /\ \A k \in (FIRST_INODE_ROW + 1)..(n - 1) : k \in held
    IN  /\ next_inode' = <<free>>
        /\ allocated' = Append(allocated, free)

\* ensure_schema of the counter: CREATE TABLE IF NOT EXISTS keeps the
\* table, and INSERT OR IGNORE ... VALUES (100) adds a row, since the table
\* has no key that the new row could collide with
ensure_schema_next_inode(rows) == Append(rows, FIRST_INODE_ROW)

\* get_and_update_inode: both statements run under one lock acquisition
AllocateInode ==
    /\ next_inode' = UpdateNextInode(next_inode)
    /\ allocated' = Append(allocated, SelectNextInode(next_inode'))

get_and_update_inode(j) ==
    /\ pending[j] = NoCall
    /\ AllocateInode
    /\ membership_result' = NoResult
    /\ UNCHANGED <<items, in_album, pending, ever>>
    /\ NoFsRequest

\* SqliteDb::try_new on a store that exists: ensure_schema leaves the
\* tables of records and memberships as they are (CREATE ... IF NOT EXISTS),
\* ensure_schema_next_inode runs on the counter; no upsert is under way
try_new ==
    /\ \A j \in Jobs : pending[j] = NoCall
    /\ next_inode' = ensure_schema_next_inode(next_inode)
    /\ membership_result' = NoResult
    /\ UNCHANGED <<items, in_album, pending, allocated, ever>>
    /\ NoFsRequest

(***************************************************************************)
(* Cache store: writes (src/db/mod.rs, impl PhotoDb for SqliteDb)          *)
(***************************************************************************)
\* upsert_media_item / upsert_album, first half: let inode =
\* self.get_and_update_inode()?  The lock is released before upsert_x.
upsert_begin(j, id, name, t) ==
    /\ pending[j] = NoCall
    /\ AllocateInode
    /\ pending' = [pending EXCEPT ![j] =
                      PhotoDbMediaItemAlbum(id, name, JobMediaType(j), t,
                                            SelectNextInode(next_inode'))]
    /\ membership_result' = NoResult
    /\ UNCHANGED <<items, in_album, ever>>
    /\ NoFsRequest

upsert_media_item(id, filename, last_modified_time) ==
    upsert_begin("Media Items", id, filename, last_modified_time)

upsert_album(id, title, last_modified_time) ==
    upsert_begin("Albums", id, title, last_modified_time)

\* INSERT OR REPLACE deletes the row that holds the primary key before it
\* inserts; the delete runs the ON DELETE CASCADE actions of
\* media_items_in_album for that google_id.
CascadeDelete(rows, id, members) ==
    IF rows[id] = NoRow
    THEN members
    ELSE {p \in members : p[1] # id /\ p[2] # id}

\* variant: the row takes the counter's value at the time of the write
ReplacedRowCurrentCounter(call) ==
    [type |-> call.type, name |-> call.name,
     inode |-> SelectNextInode(next_inode),
     last_remote_check |-> timestamp(call.last_remote_check)]

\* variant: the column keeps the date-time in ticks
ReplacedRowInTicks(call) ==
    [type |-> call.type, name |-> call.name, inode |-> call.inode,
     last_remote_check |-> call.last_remote_check]

\* the row INSERT OR REPLACE writes; last_remote_check is
\* last_modified_time.timestamp()
ReplacedRow(call) ==
    [type |-> call.type, name |-> call.name, inode |-> call.inode,
     last_remote_check |-> timestamp(call.last_remote_check)]

\* upsert_x: second half of upsert_media_item / upsert_album
upsert_x(j) ==
    /\ pending[j] # NoCall
    /\ LET call == pending[j] IN
        /\ items' = [items EXCEPT ![call.id] = ReplacedRow(call)]
        /\ in_album' = CascadeDelete(items, call.id, in_album)
        /\ ever' = ever \cup {<<call.id, call.inode>>}
    /\ pending' = [pending EXCEPT ![j] = NoCall]
    /\ membership_result' = NoResult
    /\ UNCHANGED <<next_inode, allocated>>
    /\ NoFsRequest

\* variant: only the album side is declared as a foreign key
ForeignKeysAlbumOnly(rows, album_id, media_item_id) ==
    rows[album_id] # NoRow

\* FOREIGN KEY (album_google_id) / (media_item_google_id) REFERENCES
\* albums_and_media_item (google_id)
ForeignKeysHold(rows, album_id, media_item_id) ==
    rows[album_id] # NoRow /\ rows[media_item_id] # NoRow

upsert_media_item_in_album(album_id, media_item_id) ==
    /\ pending["Albums"] = NoCall
    /\ IF ForeignKeysHold(items, album_id, media_item_id)
       THEN /\ in_album' = in_album \cup {<<album_id, media_item_id>>}
            /\ membership_result' = [called |-> TRUE, ok |-> TRUE,
                                      album_id |-> album_id,
                                      media_item_id |-> media_item_id]
       ELSE /\ in_album' = in_album
            /\ membership_result' = [called |-> TRUE, ok |-> FALSE,
                                      album_id |-> album_id,
                                      media_item_id |-> media_item_id]
    /\ UNCHANGED <<items, next_inode, pending, allocated, ever>>
    /\ NoFsRequest

(***************************************************************************)
(* Cache store: reads (src/db/mod.rs, impl PhotoDbRo for SqliteDb)         *)
(***************************************************************************)
\* row_to_item
row_to_item(rows, id) ==
    PhotoDbMediaItemAlbum(id, rows[id].name, rows[id].type,
                          Utc_timestamp(rows[id].last_remote_check),
                          rows[id].inode)

\* variant: the rows come in the order they were inserted (lowest inode
\* first) instead of ORDER BY google_id
ItemsOfTypeByInode(rows, media_type) ==
    LET ids == {g \in GoogleIds : rows[g].type = media_type}
        nth(k) == CHOOSE g \in ids :
                      Cardinality({h \in ids : rows[h].inode < rows[g].inode})
                      = k - 1
    IN  [k \in 1..Cardinality(ids) |-> row_to_item(rows, nth(k))]

\* SELECT ... WHERE type = ? ORDER BY google_id
ItemsOfType(rows, media_type) ==
    LET ids == SelectSeq(GoogleIdSeq, LAMBDA id : rows[id].type = media_type)
    IN  [i \in 1..Len(ids) |-> row_to_item(rows, ids[i])]

\* variant: the type is not part of the WHERE clause
media_itemsAnyType(rows) ==
    LET ids == SelectSeq(GoogleIdSeq, LAMBDA id : rows[id] # NoRow)
    IN  [i \in 1..Len(ids) |-> row_to_item(rows, ids[i])]

media_items(rows) == ItemsOfType(rows, "media_item")

albums(rows) == ItemsOfType(rows, "album")

\* SELECT ... WHERE inode = ?  (query_row: the first matching row, none if
\* there is no such row); an Option is a set with at most one record
item_by_inode(rows, inode) ==
    LET ids == SelectSeq(GoogleIdSeq,
                         LAMBDA id : rows[id] # NoRow /\ rows[id].inode = inode)
    IN  IF Len(ids) = 0 THEN {} ELSE {row_to_item(rows, ids[1])}

media_item_by_inode(rows, inode) ==
    {item \in item_by_inode(rows, inode) : item.type = "media_item"}

\* variant: the type is not part of the WHERE clause
album_by_inodeAnyType(rows, inode) == item_by_inode(rows, inode)

album_by_inode(rows, inode) ==
    {item \in item_by_inode(rows, inode) : item.type = "album"}

\* variant: the album is not part of the WHERE clause
media_items_in_albumAnyAlbum(rows, members, inode) ==
    LET ids == SelectSeq(GoogleIdSeq,
                   LAMBDA id : /\ rows[id].type = "media_item"
                               /\ \E p \in members : p[2] = id)
    IN  [i \in 1..Len(ids) |-> row_to_item(rows, ids[i])]

\* SELECT ... INNER JOIN media_items_in_album ... WHERE type = 'media_item'
\* AND album_google_id = (SELECT google_id ... WHERE inode = ?)
\* ORDER BY google_id
media_items_in_album(rows, members, inode) ==
    LET owner == item_by_inode(rows, inode)
        ids == SelectSeq(GoogleIdSeq,
                   LAMBDA id : /\ rows[id].type = "media_item"
                               /\ \E o \in owner : <<o.id, id>> \in members)
    IN  [i \in 1..Len(ids) |-> row_to_item(rows, ids[i])]

\* variant: the length of the whole media list
media_items_in_album_lengthAll(rows, members, inode) ==
    Len(media_items(rows))

media_items_in_album_length(rows, members, inode) ==
    Len(media_items_in_album(rows, members, inode))

\* the least element of a non-empty set of numbers
MinOf(S) == CHOOSE x \in S : \A y \in S : x <= y

\* row_to_option_datetime: NULL is None, a value is a date-time at a whole
\* second; an Option is a set with at most one element
row_to_option_datetime(column) ==
    {Utc_timestamp(secs) : secs \in column}

\* variant: the type is not part of the WHERE clause
last_updated_xAnyType(rows, media_type) ==
    LET checks == {rows[g].last_remote_check :
                      g \in {h \in GoogleIds : rows[h] # NoRow}}
    IN  row_to_option_datetime(IF checks = {} THEN {} ELSE {MinOf(checks)})

\* SELECT MIN(last_remote_check) ... WHERE type = ?  (NULL over no rows)
last_updated_x(rows, media_type) ==
    LET checks == {rows[g].last_remote_check :
                      g \in {h \in GoogleIds : rows[h].type = media_type}}
    IN  row_to_option_datetime(IF checks = {} THEN {} ELSE {MinOf(checks)})

last_updated_media(rows) == last_updated_x(rows, "media_item")

last_updated_album(rows) == last_updated_x(rows, "album")

\* SELECT ... WHERE type = ? AND name = ?  (query_row: the first matching
\* row; the query gives no order, so any matching row may be the one)
ItemsByName(rows, media_type, name) ==
    {row_to_item(rows, id) :
        id \in {g \in GoogleIds : rows[g].type = media_type
                                  /\ rows[g].name = name}}

\* variant: the type is not part of the WHERE clause
album_by_nameAnyType(rows, name) ==
    ItemsByName(rows, "album", name) \cup ItemsByName(rows, "media_item", name)

album_by_name(rows, name) == ItemsByName(rows, "album", name)

\* db::Filter
NoFilter == [kind |-> "NoFilter"]

ByAlbum(google_id) == [kind |-> "ByAlbum", album |-> google_id]

\* media_item_by_name(name, filter): with Filter::ByAlbum only media items
\* that are members of that album match
media_item_by_name(rows, members, name, filter) ==
    {item \in ItemsByName(rows, "media_item", name) :
        filter.kind = "ByAlbum" => <<filter.album, item.id>> \in members}

\* variant: every filesystem request draws a stable id from the counter
NoStoreWriteAllocates ==
    /\ membership_result' = NoResult
    /\ next_inode' = UpdateNextInode(next_inode)
    /\ UNCHANGED <<items, in_album, pending, allocated, ever, job, lockvars>>

\* the filesystem layer only reads the store (it holds a PhotoDbRo) and
\* has no access to the jobs
NoStoreWrite ==
    /\ membership_result' = NoResult
    /\ UNCHANGED <<items, in_album, next_inode, pending, allocated, ever, job,
                   lockvars>>

(***************************************************************************)
(* Filesystem operation layer: lookup (src/photofs/mod.rs)                 *)
(***************************************************************************)
FIXED_INODE_ROOT == 1
FIXED_INODE_ALBUMS == 2
FIXED_INODE_MEDIA == 3
FIXED_INODE_HELLO_WORLD == 4
DEFAULT_MEDIA_ITEM_SIZE == 1024

\* b"Hello World!\n"
HELLO_TXT_CONTENT == <<72, 101, 108, 108, 111, 32, 87, 111, 114, 108, 100, 33, 10>>

\* libc::ENOENT
ENOENT == 2

\* FuseError::libc_error_code
libc_error_code(fuse_error) == ENOENT

\* Err(FuseError::FunctionNotImplemented), as the transport reports it:
\* reply.error(error.libc_error_code())
FunctionNotImplemented(op) ==
    [op |-> op, ok |-> FALSE,
     code |-> libc_error_code("FunctionNotImplemented")]

\* FileEntryResponse with make_atr(inode, size, file_type)
FileEntryResponse(inode, size, kind) ==
    [op |-> "lookup", ok |-> TRUE, ino |-> inode, size |-> size, kind |-> kind]

lookup_root(name) ==
    IF name = "hello.txt"
    THEN {FileEntryResponse(FIXED_INODE_HELLO_WORLD, Len(HELLO_TXT_CONTENT),
                            "RegularFile")}
    ELSE IF name = "albums"
    THEN {FileEntryResponse(FIXED_INODE_ALBUMS, 0, "Directory")}
    ELSE IF name = "media"
    THEN {FileEntryResponse(FIXED_INODE_MEDIA, 0, "Directory")}
    ELSE {FunctionNotImplemented("lookup")}

lookup_albums(name) ==
    LET found == album_by_name(items, name)
    IN  IF found = {}
        THEN {FunctionNotImplemented("lookup")}
        ELSE {FileEntryResponse(album.inode,
                  media_items_in_album_length(items, in_album, album.inode),
                  "Directory") : album \in found}

lookup_media(name, filter) ==
    LET found == media_item_by_name(items, in_album, name, filter)
    IN  IF found = {}
        THEN {FunctionNotImplemented("lookup")}
        ELSE {FileEntryResponse(media_item.inode, DEFAULT_MEDIA_ITEM_SIZE,
                                "RegularFile") : media_item \in found}

\* variant: a lookup under an album searches all media items
LookupUnfiltered(parent, name) ==
    IF parent = FIXED_INODE_ROOT THEN lookup_root(name)
    ELSE IF parent = FIXED_INODE_ALBUMS THEN lookup_albums(name)
    ELSE IF parent = FIXED_INODE_MEDIA THEN lookup_media(name, NoFilter)
    ELSE IF album_by_inode(items, parent) = {}
    THEN {FunctionNotImplemented("lookup")}
    ELSE lookup_media(name, NoFilter)

\* variant: a parent that is no album is searched like media/
LookupUnknownAsMedia(parent, name) ==
    IF parent = FIXED_INODE_ROOT THEN lookup_root(name)
    ELSE IF parent = FIXED_INODE_ALBUMS THEN lookup_albums(name)
    ELSE IF parent = FIXED_INODE_MEDIA THEN lookup_media(name, NoFilter)
    ELSE IF album_by_inode(items, parent) = {}
    THEN lookup_media(name, NoFilter)
    ELSE UNION {lookup_media(name, ByAlbum(album.id)) :
                    album \in album_by_inode(items, parent)}

\* PhotoFs::lookup: the replies the call can give in the current state
LookupReplies(parent, name) ==
    IF parent = FIXED_INODE_ROOT THEN lookup_root(name)
    ELSE IF parent = FIXED_INODE_ALBUMS THEN lookup_albums(name)
    ELSE IF parent = FIXED_INODE_MEDIA THEN lookup_media(name, NoFilter)
    ELSE IF album_by_inode(items, parent) = {}
    THEN {FunctionNotImplemented("lookup")}
    ELSE UNION {lookup_media(name, ByAlbum(album.id)) :
                    album \in album_by_inode(items, parent)}

lookup(parent, name) ==
    /\ reply = NoReply
    /\ \E r \in LookupReplies(parent, name) :
          reply' = [r EXCEPT !.op = "lookup"]
                      @@ [parent |-> parent, name |-> name]
    /\ UNCHANGED <<open_files, open_dirs>>
    /\ NoStoreWrite

(***************************************************************************)
(* Filesystem operation layer: getattr (src/photofs/mod.rs)                *)
(***************************************************************************)
\* FileAttrResponse with make_atr(inode, size, file_type)
FileAttrResponse(inode, size, kind) ==
    [op |-> "getattr", ok |-> TRUE, ino |-> inode, size |-> size,
     kind |-> kind]

\* PhotoFs::getattr: the reply
GetattrResponse(ino) ==
    IF ino = FIXED_INODE_ROOT
    THEN FileAttrResponse(FIXED_INODE_ROOT, 4, "Directory")
    ELSE IF ino = FIXED_INODE_ALBUMS
    THEN FileAttrResponse(FIXED_INODE_ALBUMS, 0, "Directory")
    ELSE IF ino = FIXED_INODE_MEDIA
    THEN FileAttrResponse(FIXED_INODE_MEDIA, 0, "Directory")
    ELSE IF ino = FIXED_INODE_HELLO_WORLD
    THEN FileAttrResponse(FIXED_INODE_HELLO_WORLD, Len(HELLO_TXT_CONTENT),
                          "RegularFile")
    ELSE LET found == item_by_inode(items, ino)
             item == CHOOSE i \in found : TRUE
         IN  IF found = {} THEN FunctionNotImplemented("getattr")
             ELSE IF item.type = "album"
             THEN FileAttrResponse(item.inode,
                      media_items_in_album_length(items, in_album, item.inode),
                      "Directory")
             ELSE FileAttrResponse(item.inode, DEFAULT_MEDIA_ITEM_SIZE,
                                   "RegularFile")

getattr(ino) ==
    /\ reply = NoReply
    /\ reply' = GetattrResponse(ino) @@ [request |-> ino]
    /\ UNCHANGED <<open_files, open_dirs>>
    /\ NoStoreWrite

(***************************************************************************)
(* Handle tables (src/photofs/utils.rs)                                    *)
(***************************************************************************)
\* variant: the new key is the number of entries in the map
OpenFileHandles_openByCount(fhs, x) ==
    LET fh == Cardinality(DOMAIN fhs)
    IN  [fh |-> fh, fhs |-> (fh :> x) @@ fhs]

\* variant: fh counts up from the inode of the entry
OpenFileHandles_openFromInode(fhs, x) ==
    LET fh == CHOOSE k \in x.inode..(x.inode + Cardinality(DOMAIN fhs)) :
                  /\ k \notin DOMAIN fhs
                  /\ \A l \in x.inode..(k - 1) : l \in DOMAIN fhs
    IN  [fh |-> fh, fhs |-> (fh :> x) @@ fhs]

\* OpenFileHandles::open: fh counts up from 0 to the first key that is not
\* in the map, x is inserted under it; the key and the new map
OpenFileHandles_open(fhs, x) ==
    LET fh == CHOOSE k \in 0..Cardinality(DOMAIN fhs) :
                  /\ k \notin DOMAIN fhs
                  /\ \A l \in 0..(k - 1) : l \in DOMAIN fhs
    IN  [fh |-> fh, fhs |-> (fh :> x) @@ fhs]

\* OpenFileHandles::get: an Option is a set with at most one element
OpenFileHandles_get(fhs, fh) ==
    IF fh \in DOMAIN fhs THEN {fhs[fh]} ELSE {}

\* variant: the entry stays in the map
OpenFileHandles_removeKeeps(fhs, fh) ==
    [removed |-> OpenFileHandles_get(fhs, fh), fhs |-> fhs]

\* OpenFileHandles::remove: the removed entry, if any, and the new map
OpenFileHandles_remove(fhs, fh) ==
    [removed |-> OpenFileHandles_get(fhs, fh),
     fhs |-> [k \in DOMAIN fhs \ {fh} |-> fhs[k]]]

ReadFhEntry(inode, data) == [inode |-> inode, data |-> data]

ReadDirFhEntry(inode, entries) == [inode |-> inode, entries |-> entries]

(***************************************************************************)
(* Filesystem operation layer: files (src/photofs/mod.rs)                  *)
(***************************************************************************)
\* the bytes the remote library holds for each media item
RemoteContent(google_id) == IF google_id = "m1" THEN <<1, 2, 3>> ELSE <<4>>

Min(a, b) == IF a < b THEN a ELSE b

OpenResponse(op, ino, fh) == [op |-> op, ok |-> TRUE, ino |-> ino, fh |-> fh]

\* open, from open_files.open on: the content is buffered under a new handle
open_buffer(ino, file_data) ==
    LET opened == OpenFileHandles_open(open_files, ReadFhEntry(ino, file_data))
    IN  /\ open_files' = opened.fhs
        /\ reply' = OpenResponse("open", ino, opened.fh)

\* variant: the handle is taken before the media item is resolved and
\* fetched, and stays in the table when that fails
open_failsKeepsHandle(ino) ==
    /\ reply' = FunctionNotImplemented("open") @@ [ino |-> ino]
    /\ open_files' = OpenFileHandles_open(open_files, ReadFhEntry(ino, <<>>)).fhs

open_fails(ino) ==
    /\ reply' = FunctionNotImplemented("open") @@ [ino |-> ino]
    /\ UNCHANGED open_files

\* a thread panicked while it held the lock of the remote library: the
\* Mutex is poisoned and lock() gives Err from then on
PhotoLibPoisoned == \E j \in Jobs : job[j].outcome = "poisoned"

\* self.photo_lib.lock().unwrap() on the poisoned Mutex: the request's
\* thread panics, no reply and no error code reach the transport
open_panics(ino) ==
    /\ reply' = [op |-> "open", ok |-> FALSE, ino |-> ino,
                 cause |-> "PoisonError"]
    /\ UNCHANGED open_files

\* PhotoFs::open; photo_lib.media_item gives the remote bytes or an error
open(ino) ==
    /\ reply = NoReply
    /\ IF ino = FIXED_INODE_HELLO_WORLD
       THEN open_buffer(ino, HELLO_TXT_CONTENT)
       ELSE IF media_item_by_inode(items, ino) = {}
       THEN open_fails(ino)
       ELSE IF PhotoLibPoisoned
       THEN open_panics(ino)
       ELSE \E media_item \in media_item_by_inode(items, ino) :
               \/ open_fails(ino)
               \/ open_buffer(ino, RemoteContent(media_item.id))
    /\ UNCHANGED open_dirs
    /\ NoStoreWrite

\* variant: an offset at or past the end of the content is an error
ReadResponsePastEndFails(ino, fh, offset, size) ==
    LET found == OpenFileHandles_get(open_files, fh)
        entry == CHOOSE e \in found : TRUE
        data_len == Len(entry.data)
        slice_end == Min(offset + size, data_len)
    IN  IF found = {} THEN FunctionNotImplemented("read")
        ELSE IF entry.inode # ino THEN FunctionNotImplemented("read")
        ELSE IF offset >= data_len THEN FunctionNotImplemented("read")
        ELSE [op |-> "read", ok |-> TRUE,
              data |-> SubSeq(entry.data, offset + 1, slice_end)]

\* variant: the handle's inode is not compared with the request's
ReadResponseAnyInode(ino, fh, offset, size) ==
    LET found == OpenFileHandles_get(open_files, fh)
        entry == CHOOSE e \in found : TRUE
        data_len == Len(entry.data)
        slice_end == Min(offset + size, data_len)
    IN  IF found = {} THEN FunctionNotImplemented("read")
        ELSE IF offset >= data_len
        THEN [op |-> "read", ok |-> TRUE, data |-> <<>>]
        ELSE [op |-> "read", ok |-> TRUE,
              data |-> SubSeq(entry.data, offset + 1, slice_end)]

\* PhotoFs::read: the reply
ReadResponse(ino, fh, offset, size) ==
    LET found == OpenFileHandles_get(open_files, fh)
        entry == CHOOSE e \in found : TRUE
        data_len == Len(entry.data)
        slice_end == Min(offset + size, data_len)
    IN  IF found = {} THEN FunctionNotImplemented("read")
        ELSE IF entry.inode # ino THEN FunctionNotImplemented("read")
        ELSE IF offset >= data_len
        THEN [op |-> "read", ok |-> TRUE, data |-> <<>>]
        ELSE [op |-> "read", ok |-> TRUE,
              data |-> SubSeq(entry.data, offset + 1, slice_end)]

read(ino, fh, offset, size) ==
    /\ reply = NoReply
    /\ reply' = ReadResponse(ino, fh, offset, size)
                  @@ [ino |-> ino, fh |-> fh, offset |-> offset, size |-> size]
    /\ UNCHANGED <<open_files, open_dirs>>
    /\ NoStoreWrite

\* PhotoFs::release: ino is not looked at
release(ino, fh) ==
    LET removal == OpenFileHandles_remove(open_files, fh)
    IN  /\ reply = NoReply
        /\ open_files' = removal.fhs
        /\ reply' = IF removal.removed = {}
                    THEN FunctionNotImplemented("release")
                         @@ [ino |-> ino, fh |-> fh]
                    ELSE [op |-> "release", ok |-> TRUE, ino |-> ino,
                          fh |-> fh]
        /\ UNCHANGED open_dirs
        /\ NoStoreWrite

(***************************************************************************)
(* Filesystem operation layer: directories (src/photofs/mod.rs)            *)
(***************************************************************************)
\* one element of ReadDirFhEntry.entries
DirEntry(ino, kind, name) == [ino |-> ino, kind |-> kind, name |-> name]

\* variant: every item of the listing is pushed
DedupeEntriesKeepAll(list, kind) ==
    [k \in DOMAIN list |-> DirEntry(list[k].inode, kind, list[k].name)]

\* the loop over a listing with the HashSet of names: an item is pushed
\* when its name was not seen before in the listing
DedupeEntries(list, kind) ==
    LET first == {i \in DOMAIN list :
                     \A j \in 1..(i - 1) : list[j].name # list[i].name}
        nth(k) == CHOOSE i \in first : Cardinality({j \in first : j < i}) = k - 1
    IN  [k \in 1..Cardinality(first) |->
            DirEntry(list[nth(k)].inode, kind, list[nth(k)].name)]

\* variant: the root listing leaves out the diagnostic file
opendir_entriesNoHello(ino, is_album) ==
    <<DirEntry(ino, "Directory", ".")>> \o
    ( IF ino = FIXED_INODE_ROOT
      THEN <<DirEntry(FIXED_INODE_ALBUMS, "Directory", "albums"),
             DirEntry(FIXED_INODE_MEDIA, "Directory", "media")>>
      ELSE IF ino = FIXED_INODE_ALBUMS
      THEN <<DirEntry(FIXED_INODE_ROOT, "Directory", "..")>>
             \o DedupeEntries(albums(items), "Directory")
      ELSE IF ino = FIXED_INODE_MEDIA
      THEN <<DirEntry(FIXED_INODE_ROOT, "Directory", "..")>>
             \o DedupeEntries(media_items(items), "RegularFile")
      ELSE <<DirEntry(FIXED_INODE_ALBUMS, "Directory", "..")>>
             \o DedupeEntries(media_items_in_album(items, in_album, ino),
                              "RegularFile") )

\* PhotoFs::opendir_entries; is_album: album_for_inode.is_some()
opendir_entries(ino, is_album) ==
    <<DirEntry(ino, "Directory", ".")>> \o
    ( IF ino = FIXED_INODE_ROOT
      THEN <<DirEntry(FIXED_INODE_ALBUMS, "Directory", "albums"),
             DirEntry(FIXED_INODE_MEDIA, "Directory", "media"),
             DirEntry(FIXED_INODE_HELLO_WORLD, "RegularFile", "hello.txt")>>
      ELSE IF ino = FIXED_INODE_ALBUMS
      THEN <<DirEntry(FIXED_INODE_ROOT, "Directory", "..")>>
             \o DedupeEntries(albums(items), "Directory")
      ELSE IF ino = FIXED_INODE_MEDIA
      THEN <<DirEntry(FIXED_INODE_ROOT, "Directory", "..")>>
             \o DedupeEntries(media_items(items), "RegularFile")
      ELSE <<DirEntry(FIXED_INODE_ALBUMS, "Directory", "..")>>
             \o DedupeEntries(media_items_in_album(items, in_album, ino),
                              "RegularFile") )

\* PhotoFs::opendir
opendir(ino) ==
    LET fixed == ino \in {FIXED_INODE_ROOT, FIXED_INODE_MEDIA,
                          FIXED_INODE_ALBUMS}
        album_for_inode == IF fixed THEN {} ELSE album_by_inode(items, ino)
        entries == opendir_entries(ino, album_for_inode # {})
        opened == OpenFileHandles_open(open_dirs, ReadDirFhEntry(ino, entries))
    IN  /\ reply = NoReply
        /\ IF ~ fixed /\ album_for_inode = {}
           THEN /\ reply' = FunctionNotImplemented("opendir") @@ [ino |-> ino]
                /\ UNCHANGED open_dirs
           ELSE /\ open_dirs' = opened.fhs
                /\ reply' = OpenResponse("opendir", ino, opened.fh)
        /\ UNCHANGED open_files
        /\ NoStoreWrite

ReadDirEntry(ino, offset, kind, name) ==
    [ino |-> ino, offset |-> offset, kind |-> kind, name |-> name]

\* variant: readdir queries the store again instead of reading the handle
readdirLive(ino, fh, offset) ==
    LET found == OpenFileHandles_get(open_dirs, fh)
        fh_entry == CHOOSE e \in found : TRUE
        live == opendir_entries(ino, TRUE)
        to_skip == IF offset = 0 THEN offset ELSE offset + 1
        left == IF Len(live) > to_skip THEN Len(live) - to_skip ELSE 0
    IN  IF found = {} THEN FunctionNotImplemented("readdir")
        ELSE IF fh_entry.inode # ino THEN FunctionNotImplemented("readdir")
        ELSE [op |-> "readdir", ok |-> TRUE,
              entries |-> [i \in 1..left |->
                  ReadDirEntry(live[to_skip + i].ino, to_skip + i,
                               live[to_skip + i].kind,
                               live[to_skip + i].name)]]

\* PhotoFs::readdir: the reply; the entry at 0-based index i is tagged i + 1
readdir(ino, fh, offset) ==
    LET found == OpenFileHandles_get(open_dirs, fh)
        fh_entry == CHOOSE e \in found : TRUE
        to_skip == IF offset = 0 THEN offset ELSE offset + 1
        left == IF Len(fh_entry.entries) > to_skip
                THEN Len(fh_entry.entries) - to_skip ELSE 0
    IN  IF found = {} THEN FunctionNotImplemented("readdir")
        ELSE IF fh_entry.inode # ino THEN FunctionNotImplemented("readdir")
        ELSE [op |-> "readdir", ok |-> TRUE,
              entries |-> [i \in 1..left |->
                  ReadDirEntry(fh_entry.entries[to_skip + i].ino, to_skip + i,
                               fh_entry.entries[to_skip + i].kind,
                               fh_entry.entries[to_skip + i].name)]]

\* RustFilesystemReal::readdir: entries are added until reply.add reports
\* that the buffer is full; room: how many entries the buffer takes
RustFilesystemReal_readdir(ino, fh, offset, room) ==
    LET response == readdir(ino, fh, offset)
        request == [ino |-> ino, fh |-> fh, offset |-> offset]
    IN  /\ reply = NoReply
        /\ reply' = IF response.ok
                    THEN response @@ request @@
                         [added |-> SubSeq(response.entries, 1,
                                        Min(room, Len(response.entries)))]
                    ELSE response @@ request
        /\ UNCHANGED <<open_files, open_dirs>>
        /\ NoStoreWrite

\* PhotoFs::releasedir: ino is not looked at
releasedir(ino, fh) ==
    LET removal == OpenFileHandles_remove(open_dirs, fh)
    IN  /\ reply = NoReply
        /\ open_dirs' = removal.fhs
        /\ reply' = IF removal.removed = {}
                    THEN FunctionNotImplemented("releasedir")
                         @@ [ino |-> ino, fh |-> fh]
                    ELSE [op |-> "releasedir", ok |-> TRUE, ino |-> ino,
                          fh |-> fh]
        /\ UNCHANGED open_files
        /\ NoStoreWrite

(***************************************************************************)
(* Transport adapter (src/rust_filesystem/mod.rs)                          *)
(***************************************************************************)
\* reply.entry / reply.attr / reply.opened / reply.data / reply.ok /
\* reply.error: the answer goes to the kernel, the session loop takes the
\* next request
\* DbError: the store's faults
DbErrors == {"SqlError", "LockingError"}

\* impl From<DbError> for FuseError
From_DbError(db_error) == "FunctionNotImplemented"

\* the requests that call the store, by operation
CallsStore(op, ino) ==
    CASE op = "lookup" -> ino # FIXED_INODE_ROOT
      [] op = "getattr" -> ino \notin {FIXED_INODE_ROOT, FIXED_INODE_ALBUMS,
                                       FIXED_INODE_MEDIA,
                                       FIXED_INODE_HELLO_WORLD}
      [] op = "open" -> ino # FIXED_INODE_HELLO_WORLD
      [] op = "opendir" -> ino \notin {FIXED_INODE_ROOT, FIXED_INODE_ALBUMS,
                                       FIXED_INODE_MEDIA}
      [] OTHER -> FALSE

\* a request whose store call gives Err(db_error): the handler's Err arm,
\* or its ?, turns it into a FuseError and the transport reports its code
store_fault(op, ino, db_error) ==
    /\ reply = NoReply
    /\ CallsStore(op, ino)
    /\ reply' = [op |-> op, ok |-> FALSE,
                 code |-> libc_error_code(From_DbError(db_error)),
                 ino |-> ino, cause |-> db_error]
    /\ UNCHANGED <<open_files, open_dirs>>
    /\ NoStoreWrite

\* PhotoFs::opendir where the listing query of opendir_entries (albums,
\* media_items, media_items_in_album) gives Err(db_error): the Err arm
\* only warns, the handle is opened on the entries pushed before the query
opendir_listing_fault(ino, db_error) ==
    LET parent == IF ino \in {FIXED_INODE_ALBUMS, FIXED_INODE_MEDIA}
                  THEN FIXED_INODE_ROOT ELSE FIXED_INODE_ALBUMS
        entries == <<DirEntry(ino, "Directory", "."),
                     DirEntry(parent, "Directory", "..")>>
        opened == OpenFileHandles_open(open_dirs, ReadDirFhEntry(ino, entries))
    IN  /\ reply = NoReply
        /\ \/ ino \in {FIXED_INODE_ALBUMS, FIXED_INODE_MEDIA}
           \/ album_by_inode(items, ino) # {}
        /\ open_dirs' = opened.fhs
        /\ reply' = OpenResponse("opendir", ino, opened.fh)
                        @@ [cause |-> db_error]
        /\ UNCHANGED open_files
        /\ NoStoreWrite

SendReply ==
    /\ reply # NoReply
    /\ reply' = NoReply
    /\ UNCHANGED <<open_files, open_dirs>>
    /\ NoStoreWrite

(***************************************************************************)
(* Synchronizer (src/background_update.rs)                                 *)
(***************************************************************************)
\* SELECT 1 ... WHERE google_id = ?
exists(rows, id) == rows[id] # NoRow

\* what the remote library holds: the listing of each job, the names, and
\* the roster of each album
JobListing(j) == IF j = "Albums" THEN AlbumIds ELSE MediaIds

RemoteName(id) == IF id \in {"a1", "m1"} THEN "n1" ELSE "n2"

RemoteRoster(album_id) ==
    IF album_id = "a1" THEN <<"m1", "m2">> ELSE <<"m2">>

\* Utc::now() of a pass
SyncTime == 1

\* the pass makes no store call in this step
NoStoreCall ==
    /\ membership_result' = NoResult
    /\ UNCHANGED <<items, in_album, next_inode, pending, allocated, ever>>
    /\ NoFsRequest

\* the job's record at position pc, k, r of its pass
At(j, pc, k, r, faulted) ==
    [job[j] EXCEPT !.pc = pc, !.k = k, !.r = r, !.faulted = faulted]

\* update() returned or unwound: Ok(()), Err(String) or a panic
Ended(j, outcome, faulted) ==
    [job[j] EXCEPT !.pc = "idle", !.k = 0, !.r = 0, !.faulted = faulted,
                   !.outcome = outcome]

\* the for loop over the listing goes on with element k, or update()
\* returns Ok(())
ForItem(j, k, faulted) ==
    IF k <= Len(JobListing(j))
    THEN At(j, "upsert", k, 0, faulted)
    ELSE Ended(j, "completed", faulted)

\* the iterator over the roster of album k goes on with element r, or the
\* for loop goes on with the next album
ForMember(j, k, r, faulted) ==
    IF r <= Len(RemoteRoster(JobListing(j)[k]))
    THEN At(j, "exists", k, r, faulted)
    ELSE ForItem(j, k + 1, faulted)

\* after upsert_album the roster is fetched; after upsert_media_item the
\* loop goes on
AfterUpsert(j, faulted) ==
    IF j = "Albums"
    THEN At(j, "roster", job[j].k, 0, faulted)
    ELSE ForItem(j, job[j].k + 1, faulted)

\* update(), up to the for loop: remote_photo_lib.albums() / media_items()
\* gives the listing, or its error (or the error of lock() on a poisoned
\* lock) is returned, or it panics on a response that lacks a field it
\* unwraps (albums, id, title, filename) while update() holds the lock of
\* the remote library
update_listing(j) ==
    /\ job[j].pc = "idle"
    /\ job[j].outcome \notin {"panicked", "poisoned"}
    /\ \/ /\ ~ PhotoLibPoisoned
          /\ job' = [job EXCEPT ![j] =
                        [ForItem(j, 1, FALSE) EXCEPT !.outcome = "none",
                                                     !.passes = @ + 1]]
       \/ job' = [job EXCEPT ![j] =
                     [Ended(j, "returned", TRUE) EXCEPT !.passes = @ + 1]]
       \/ /\ ~ PhotoLibPoisoned
          /\ job' = [job EXCEPT ![j] =
                        [Ended(j, "poisoned", TRUE) EXCEPT !.passes = @ + 1]]
    /\ NoStoreCall

\* self.db.upsert_album / upsert_media_item, first half; an Err is logged
\* and the loop body goes on
update_upsert(j) ==
    /\ job[j].pc = "upsert"
    /\ LET id == JobListing(j)[job[j].k] IN
        \/ /\ upsert_begin(j, id, RemoteName(id), SyncTime)
           /\ job' = [job EXCEPT ![j].pc = "write"]
        \/ /\ NoStoreCall
           /\ job' = [job EXCEPT ![j] = AfterUpsert(j, TRUE)]

\* second half (upsert_x); an Err is logged, the inode is used up and no
\* row is written
update_write(j) ==
    /\ job[j].pc = "write"
    /\ \/ /\ upsert_x(j)
          /\ job' = [job EXCEPT ![j] = AfterUpsert(j, job[j].faulted)]
       \/ /\ pending' = [pending EXCEPT ![j] = NoCall]
          /\ membership_result' = NoResult
          /\ UNCHANGED <<items, in_album, next_inode, allocated, ever>>
          /\ NoFsRequest
          /\ job' = [job EXCEPT ![j] = AfterUpsert(j, TRUE)]

\* remote_photo_lib.album(id) gives the roster, or its error is returned,
\* or it panics on a response that lacks a field it unwraps
update_roster(j) ==
    /\ job[j].pc = "roster"
    /\ \/ /\ ~ PhotoLibPoisoned
          /\ job' = [job EXCEPT ![j] =
                        ForMember(j, job[j].k, 1, job[j].faulted)]
       \/ job' = [job EXCEPT ![j] = Ended(j, "returned", TRUE)]
       \/ /\ ~ PhotoLibPoisoned
          /\ job' = [job EXCEPT ![j] = Ended(j, "poisoned", TRUE)]
    /\ NoStoreCall

\* .filter(|item| self.db.exists(item.google_id()).unwrap()): an item
\* without a row is skipped, an Err panics
update_exists(j) ==
    /\ job[j].pc = "exists"
    /\ LET item == RemoteRoster(JobListing(j)[job[j].k])[job[j].r] IN
        \/ job' = [job EXCEPT ![j] =
                      IF exists(items, item)
                      THEN At(j, "insert", job[j].k, job[j].r, job[j].faulted)
                      ELSE ForMember(j, job[j].k, job[j].r + 1, job[j].faulted)]
        \/ job' = [job EXCEPT ![j] = Ended(j, "panicked", TRUE)]
    /\ NoStoreCall

\* self.db.upsert_media_item_in_album(album, item); an Err is logged
update_insert(j) ==
    /\ job[j].pc = "insert"
    /\ LET album_id == JobListing(j)[job[j].k]
           item == RemoteRoster(album_id)[job[j].r]
       IN  \/ /\ upsert_media_item_in_album(album_id, item)
              /\ job' = [job EXCEPT ![j] =
                            ForMember(j, job[j].k, job[j].r + 1,
                                job[j].faulted
                                \/ ~ ForeignKeysHold(items, album_id, item))]
           \/ /\ NoStoreCall
              /\ job' = [job EXCEPT ![j] =
                            ForMember(j, job[j].k, job[j].r + 1, TRUE)]

\* BackgroundUpdate::delay, in seconds: time::Duration::seconds(5) for the
\* albums job, seconds(15) for the media job; the store is not consulted
delay(j, rows) == IF j = "Albums" THEN 5 ELSE 15

\* BackgroundUpdate::interval, in seconds: hours(12) and days(2)
interval(j) == IF j = "Albums" THEN 12 * 3600 ELSE 2 * 24 * 3600

(***************************************************************************)
(* Locks: the Mutex of the store's connection (self.db in src/db/mod.rs)   *)
(* and the Mutex of the remote library (remote_photo_lib, photo_lib), as   *)
(* the jobs' passes and the filesystem requests take and drop them.  A     *)
(* guard is dropped at the end of its statement or block, also when the    *)
(* function returns early with ? or return.                                *)
(***************************************************************************)
Mutexes == {"db", "photo_lib"}

\* the two job threads and the thread that serves filesystem requests
Threads == Jobs \cup {"fs"}

Free == "free"

IdleThread == [prog |-> "none", pc |-> 0]

\* mutex.lock()
Lock(m) == [op |-> "lock", m |-> m]

\* the call made while the guard is held: a statement on the connection or
\* a request to the remote library
Call(kind, name) == [op |-> "call", kind |-> kind, name |-> name]

\* the guard is dropped; what follows depends on the call's result: the
\* thread goes on after skipping one of skips instructions, or, with
\* may_end, the operation returns here (? or return on Err or None, or a
\* panic of unwrap on the result)
Unlock(m, skips, may_end) ==
    [op |-> "unlock", m |-> m, skips |-> skips, may_end |-> may_end]

\* a method of SqliteDb: self.db.lock()?, the statement, the guard dropped
StoreCall(name, skips, may_end) ==
    <<Lock("db"), Call("store", name), Unlock("db", skips, may_end)>>

\* variant: the guard of the remote library is never dropped
RemoteCallKeepsGuard(name, may_end) ==
    <<Lock("photo_lib"), Call("remote", name)>>

\* { let lib = remote_photo_lib.lock()..; x = lib.call()..?; }
RemoteCall(name, may_end) ==
    <<Lock("photo_lib"), Call("remote", name),
      Unlock("photo_lib", {0}, may_end)>>

\* upsert_album / upsert_media_item: get_and_update_inode()? and upsert_x,
\* each under its own guard; a failed allocation skips the write
upsert_locks ==
    StoreCall("get_and_update_inode", {0, 3}, FALSE)
        \o StoreCall("upsert_x", {0}, FALSE)

\* the filter and for_each over an album's roster, from item r on: exists
\* (false skips the insert, Err panics), upsert_media_item_in_album
RECURSIVE roster_locks(_, _)
roster_locks(album_id, r) ==
    IF r > Len(RemoteRoster(album_id)) THEN <<>>
    ELSE StoreCall("exists", {0, 3}, TRUE)
            \o StoreCall("upsert_media_item_in_album", {0}, FALSE)
            \o roster_locks(album_id, r + 1)

\* the for loop of BackgroundAlbumUpdate::update, from album k on
RECURSIVE album_locks(_)
album_locks(k) ==
    IF k > Len(AlbumIds) THEN <<>>
    ELSE upsert_locks \o RemoteCall("album", TRUE)
            \o roster_locks(AlbumIds[k], 1) \o album_locks(k + 1)

\* the for loop of BackgroundMediaUpdate::update, from item k on
RECURSIVE media_locks(_)
media_locks(k) ==
    IF k > Len(MediaIds) THEN <<>>
    ELSE upsert_locks \o media_locks(k + 1)

\* BackgroundAlbumUpdate::update / BackgroundMediaUpdate::update
update_locks(j) ==
    IF j = "Albums"
    THEN RemoteCall("albums", TRUE) \o album_locks(1)
    ELSE RemoteCall("media_items", TRUE) \o media_locks(1)

\* variant: open keeps the store's guard until the content is fetched
open_locksHoldingDb ==
    <<Lock("db"), Call("store", "media_item_by_inode")>>
        \o RemoteCall("media_item", TRUE)
        \o <<Unlock("db", {0}, FALSE)>>

\* PhotoFs::open of a media item: media_item_by_inode, then
\* photo_lib.lock() and media_item() until the match arm ends
open_locks ==
    StoreCall("media_item_by_inode", {0}, TRUE)
        \o RemoteCall("media_item", TRUE)

\* PhotoFs::lookup in albums/, media/ or an album
lookup_locks ==
    StoreCall("album_by_name", {0}, TRUE)
        \o StoreCall("media_items_in_album_length", {0}, TRUE)

\* PhotoFs::getattr of a stored entity
getattr_locks ==
    StoreCall("item_by_inode", {0}, TRUE)
        \o StoreCall("media_items_in_album_length", {0}, TRUE)

\* PhotoFs::opendir of an album
opendir_locks ==
    StoreCall("album_by_inode", {0}, TRUE)
        \o StoreCall("media_items_in_album", {0}, FALSE)

\* the filesystem requests that take a lock
LockingOps == {"lookup", "getattr", "open", "opendir"}

Program(prog) ==
    CASE prog \in Jobs -> update_locks(prog)
      [] prog = "open" -> open_locks
      [] prog = "lookup" -> lookup_locks
      [] prog = "getattr" -> getattr_locks
      [] prog = "opendir" -> opendir_locks

Running(t) == thread[t].pc # 0

\* the instruction the thread is at
Ins(t) == Program(thread[t].prog)[thread[t].pc]

\* the thread's record at position pc of its operation, idle past the end
Position(t, pc) ==
    IF pc > Len(Program(thread[t].prog)) THEN IdleThread
    ELSE [thread[t] EXCEPT !.pc = pc]

NoLockedData ==
    UNCHANGED <<items, in_album, next_inode, pending, allocated, ever,
                membership_result, open_files, open_dirs, reply, job>>

\* a pass of a job or a filesystem request starts
thread_begins(t, prog) ==
    /\ ~ Running(t)
    /\ thread' = [thread EXCEPT ![t] = [prog |-> prog, pc |-> 1]]
    /\ UNCHANGED mutex
    /\ NoLockedData

\* Mutex::lock: the thread waits until the Mutex is free
mutex_lock(t) ==
    /\ Running(t)
    /\ Ins(t).op = "lock"
    /\ mutex[Ins(t).m] = Free
    /\ mutex' = [mutex EXCEPT ![Ins(t).m] = t]
    /\ thread' = [thread EXCEPT ![t] = Position(t, thread[t].pc + 1)]
    /\ NoLockedData

\* the call made under the guard returns
call_returns(t) ==
    /\ Running(t)
    /\ Ins(t).op = "call"
    /\ thread' = [thread EXCEPT ![t] = Position(t, thread[t].pc + 1)]
    /\ UNCHANGED mutex
    /\ NoLockedData

\* the guard is dropped and the thread goes on, or its operation returns
mutex_unlock(t) ==
    /\ Running(t)
    /\ Ins(t).op = "unlock"
    /\ mutex' = [mutex EXCEPT ![Ins(t).m] = Free]
    /\ \/ \E skip \in Ins(t).skips :
            thread' = [thread EXCEPT ![t] =
                          Position(t, thread[t].pc + 1 + skip)]
       \/ /\ Ins(t).may_end
          /\ thread' = [thread EXCEPT ![t] = IdleThread]
    /\ NoLockedData

(***************************************************************************)
(* Properties of the cache store                                           *)
(***************************************************************************)
HasRow(id) == items[id] # NoRow

\* C1: every upsert of one remote_id returns the stable id its first upsert
\* returned: no remote_id is ever paired with two different inodes.
UpsertReturnsFirstInode ==
    \A p \in ever : \A q \in ever : p[1] = q[1] => p[2] = q[2]

\* C2: no two entity records carry the same inode, whatever the
\* interleaving of the two jobs' upserts and of get_and_update_inode.
InodesUnique ==
    \A r \in GoogleIds : \A s \in GoogleIds :
        (r # s /\ HasRow(r) /\ HasRow(s)) => items[r].inode # items[s].inode

\* C2 witness: two records exist, and the Media Items job allocated and
\* stored an inode while the Albums job was between allocation and write.
InodesUniqueWitness ==
    /\ HasRow("a1")
    /\ pending["Albums"] # NoCall
    /\ \E m \in SeqRange(MediaIds) :
          HasRow(m) /\ items[m].inode > pending["Albums"].inode

\* C3: an inode stored with or returned for remote_id r is never stored
\* with or returned for another remote_id, also after r's row was replaced.
InodeNeverReused ==
    /\ \A p \in ever : \A q \in ever : p[2] = q[2] => p[1] = q[1]
    /\ \A r \in GoogleIds : \A p \in ever :
          (HasRow(r) /\ items[r].inode = p[2]) => p[1] = r

\* C3 witness: r was upserted and its row replaced by a re-upsert, and a
\* different remote_id was upserted after that.
InodeNeverReusedWitness ==
    \E r \in GoogleIds : \E s \in GoogleIds :
        /\ r # s
        /\ Cardinality({p \in ever : p[1] = r}) >= 2
        /\ HasRow(s)
        /\ \A p \in ever : p[1] = r => p[2] < items[s].inode

\* C4: the first allocation returns 101 and each later one, made by
\* get_and_update_inode or by either upsert, returns the previous id plus one.
AllocationsSequential ==
    \A i \in DOMAIN allocated : allocated[i] = FIRST_INODE_ROW + i

\* C4 witness: three allocations, one by upsert_album, one by
\* upsert_media_item and one by a direct get_and_update_inode call.
AllocationsSequentialWitness ==
    /\ Len(allocated) = 3
    /\ \E a \in SeqRange(AlbumIds) : HasRow(a)
    /\ \E m \in SeqRange(MediaIds) : HasRow(m)
    /\ Cardinality(ever) = 2
    /\ \A j \in Jobs : pending[j] = NoCall

\* C5: upsert_media_item_in_album fails when the album or the media item has
\* no entity record and then adds no row; no membership row refers to a
\* missing entity.
MembershipNeedsEntities ==
    /\ \A p \in in_album : HasRow(p[1]) /\ HasRow(p[2])
    /\ (/\ membership_result.called
        /\ ~ (HasRow(membership_result.album_id)
              /\ HasRow(membership_result.media_item_id)))
       => /\ ~ membership_result.ok
          /\ <<membership_result.album_id, membership_result.media_item_id>>
                \notin in_album

\* C5 witness: the call failed on a missing media item although the album
\* exists, and another membership row is in the table.
MembershipNeedsEntitiesWitness ==
    /\ membership_result.called
    /\ ~ membership_result.ok
    /\ HasRow(membership_result.album_id)
    /\ ~ HasRow(membership_result.media_item_id)
    /\ in_album # {}

\* C6: re-upserting a known album or media item leaves every membership row
\* in place.
ReupsertKeepsMembership ==
    [][\A j \in Jobs :
          (/\ pending[j] # NoCall
           /\ pending'[j] = NoCall
           /\ HasRow(pending[j].id))
          => in_album \subseteq in_album']_vars

(***************************************************************************)
(* Properties of lookup                                                    *)
(***************************************************************************)
FixedInodes ==
    {FIXED_INODE_ROOT, FIXED_INODE_ALBUMS, FIXED_INODE_MEDIA,
     FIXED_INODE_HELLO_WORLD}

\* the inodes requests are made for: the fixed nodes and the counter's range
Inodes == FixedInodes \cup ((FIRST_INODE_ROW + 1)..MaxSyncInode)

LookupNames == Names \cup {"albums", "media", "hello.txt"}

ReaddirResumesAfterOffset ==
    (reply.op = "readdir" /\ reply.ok)
    => LET entries == open_dirs[reply.fh].entries
           follow == [i \in 1..(Len(entries) - reply.offset) |->
                        ReadDirEntry(entries[reply.offset + i].ino,
                                     reply.offset + i,
                                     entries[reply.offset + i].kind,
                                     entries[reply.offset + i].name)]
       IN  /\ reply.entries = follow
           /\ \E n \in 0..Len(follow) : reply.added = SubSeq(follow, 1, n)

\* what a step that answers an open must do to one table
OpenIsFresh(fhs, fhs_next, open_op) ==
    (reply'.op = open_op /\ reply'.ok)
    => /\ reply'.fh \notin DOMAIN fhs
       /\ DOMAIN fhs_next = DOMAIN fhs \cup {reply'.fh}
       /\ \A fh \in DOMAIN fhs : fhs_next[fh] = fhs[fh]

\* C9: open and opendir return a handle number that is not open in their
\* table, and leave the entry of every open handle as it was.
OpenNeverCollides ==
    [][/\ OpenIsFresh(open_files, open_files', "open")
       /\ OpenIsFresh(open_dirs, open_dirs', "opendir")]_vars

\* C9 witness: open handed out number 0 again, after its release, while
\* handle 1 is still open.
OpenNeverCollidesWitness ==
    /\ reply.op = "open"
    /\ reply.ok
    /\ reply.fh = 0
    /\ 1 \in DOMAIN open_files

\* what a step may do to one table's handles
HandleLifeCycle(fhs, fhs_next, open_op, use_op, release_op) ==
    /\ reply'.op = release_op
       => /\ reply'.ok <=> reply'.fh \in DOMAIN fhs
          /\ reply'.fh \notin DOMAIN fhs_next
    /\ (reply'.op = use_op /\ reply'.fh \notin DOMAIN fhs) => ~ reply'.ok
    /\ \A fh \in DOMAIN fhs_next \ DOMAIN fhs :
          reply'.op = open_op /\ reply'.ok /\ reply'.fh = fh
    /\ \A fh \in DOMAIN fhs \ DOMAIN fhs_next :
          reply'.op = release_op /\ reply'.ok /\ reply'.fh = fh

\* C10: in both tables a handle is open from the open/opendir that returned
\* it to the first release/releasedir of it: a release succeeds exactly when
\* the handle is open and leaves it absent, only a successful open makes a
\* handle open, and read/readdir on a handle that is not open fail.
HandleUsableWhileOpen ==
    [][/\ HandleLifeCycle(open_files, open_files', "open", "read", "release")
       /\ HandleLifeCycle(open_dirs, open_dirs', "opendir", "readdir",
                          "releasedir")]_vars

\* C10 witness: release failed for handle 0, which was opened and released
\* before (handle 1, handed out after it, is still open).
HandleUsableWhileOpenWitness ==
    /\ reply.op = "release"
    /\ ~ reply.ok
    /\ reply.fh = 0
    /\ 1 \in DOMAIN open_files

\* C11: a read through an open file handle, for the inode the handle was
\* opened for, returns the bytes of the buffered content at positions
\* offset .. min(offset + size, len) - 1, the empty result when offset >= len,
\* and changes neither the content nor either handle table.
ReadReturnsSlice ==
    [][reply'.op = "read"
       => /\ open_files' = open_files
          /\ open_dirs' = open_dirs
          /\ (/\ reply'.fh \in DOMAIN open_files
              /\ open_files[reply'.fh].inode = reply'.ino)
             => LET data == open_files[reply'.fh].data
                    end == Min(reply'.offset + reply'.size, Len(data))
                    n == IF end > reply'.offset
                         THEN end - reply'.offset ELSE 0
                IN  /\ reply'.ok
                    /\ reply'.data = [i \in 1..n |-> data[reply'.offset + i]]
      ]_vars

\* C11 witness: a read at an offset past the end of a non-empty buffered
\* content succeeded with the empty result.
ReadReturnsSliceWitness ==
    /\ reply.op = "read"
    /\ reply.ok
    /\ reply.fh \in DOMAIN open_files
    /\ Len(open_files[reply.fh].data) > 0
    /\ reply.offset >= Len(open_files[reply.fh].data)
    /\ reply.data = <<>>

FreshListing == reply.op = "opendir" /\ reply.ok

\* the entries of the listing opened in the last step
FreshEntries == open_dirs[reply.fh].entries

\* the store's result the listing of directory ino is made from, and the
\* kind its entries get
ListedRecords(ino) ==
    IF ino = FIXED_INODE_ALBUMS THEN albums(items)
    ELSE IF ino = FIXED_INODE_MEDIA THEN media_items(items)
    ELSE media_items_in_album(items, in_album, ino)

ListedKind(ino) ==
    IF ino = FIXED_INODE_ALBUMS THEN "Directory" ELSE "RegularFile"

\* record i of a store result is the first one with its name
FirstOfName(records, i) ==
    \A j \in 1..(i - 1) : records[j].name # records[i].name

IdRank(id) == CHOOSE i \in DOMAIN GoogleIdSeq : GoogleIdSeq[i] = id

\* record i of a store result is an entry of the listing opened last
Shown(records, i) ==
    \E k \in 3..Len(FreshEntries) : FreshEntries[k].ino = records[i].inode

\* C14: of the entities of one kind that share a display name, the listing
\* shows the one that was inserted into the store first. (Rows of one kind
\* are written by one job, one upsert after the other, so among them the
\* lower inode is the earlier insertion.)
OldestNameWins ==
    (FreshListing /\ reply.ino # FIXED_INODE_ROOT)
    => LET records == ListedRecords(reply.ino)
       IN  \A i, j \in DOMAIN records :
              (Shown(records, j) /\ records[j].name = records[i].name)
              => records[j].inode <= records[i].inode

\* C14 as amended: of the entities of one kind that share a display name,
\* the listing shows the one with the lowest remote id, whatever the order
\* of insertion.
LowestRemoteIdWins ==
    (FreshListing /\ reply.ino # FIXED_INODE_ROOT)
    => LET records == ListedRecords(reply.ino)
       IN  \A i, j \in DOMAIN records :
              (Shown(records, j) /\ records[j].name = records[i].name)
              => IdRank(records[j].id) <= IdRank(records[i].id)

\* C14 witness: the listing shows an entity that was inserted after the
\* entity of the same name it hides.
LowestRemoteIdWinsWitness ==
    /\ FreshListing
    /\ reply.ino # FIXED_INODE_ROOT
    /\ LET records == ListedRecords(reply.ino)
       IN  \E i, j \in DOMAIN records :
              /\ Shown(records, j)
              /\ ~ Shown(records, i)
              /\ records[j].name = records[i].name
              /\ records[j].inode > records[i].inode

\* C15: every entry of a listing of albums/, media/ or an album opened in
\* the last step is found by lookup under that directory in the same store
\* state, and lookup returns the entry's inode, also when several entities
\* of the kind have the entry's name.
ListedNamesLookUp ==
    (FreshListing /\ reply.ino # FIXED_INODE_ROOT)
    => \A k \in 3..Len(FreshEntries) :
          \A r \in LookupReplies(reply.ino, FreshEntries[k].name) :
              r.ok /\ r.ino = FreshEntries[k].ino

\* some row of the given type has the given name
Named(media_type, name) ==
    \E g \in GoogleIds : items[g].type = media_type /\ items[g].name = name

\* the album row with the given inode, if there is one
AlbumAt(inode) ==
    {g \in GoogleIds : items[g].type = "album" /\ items[g].inode = inode}

\* C16: a lookup under albums/ succeeds exactly when the store holds an
\* album with that display name, and then returns the inode of such an album
\* with kind directory.
LookupAlbumsByName ==
    (reply.op = "lookup" /\ reply.parent = FIXED_INODE_ALBUMS)
    => /\ reply.ok <=> Named("album", reply.name)
       /\ reply.ok
          => /\ reply.kind = "Directory"
             /\ \E g \in GoogleIds :
                   /\ items[g].type = "album"
                   /\ items[g].name = reply.name
                   /\ items[g].inode = reply.ino

\* C16 witness: the first album upserted into the empty store was found
\* under albums/ with inode 101.
LookupAlbumsByNameWitness ==
    /\ reply.op = "lookup"
    /\ reply.parent = FIXED_INODE_ALBUMS
    /\ reply.ok
    /\ reply.ino = FIRST_INODE_ROW + 1
    /\ allocated = <<FIRST_INODE_ROW + 1>>

RootIsFixed ==
    /\ (reply.op = "opendir" /\ reply.ino = FIXED_INODE_ROOT)
       => /\ reply.ok
          /\ FreshEntries =
               << [ino |-> 1, kind |-> "Directory", name |-> "."],
                  [ino |-> 2, kind |-> "Directory", name |-> "albums"],
                  [ino |-> 3, kind |-> "Directory", name |-> "media"],
                  [ino |-> 4, kind |-> "RegularFile", name |-> "hello.txt"] >>
    /\ (reply.op = "lookup" /\ reply.parent = FIXED_INODE_ROOT)
       => /\ reply.ok <=> reply.name \in {"albums", "media", "hello.txt"}
          /\ reply.ok
             => /\ reply.name = "albums"
                   => reply.ino = 2 /\ reply.kind = "Directory"
                /\ reply.name = "media"
                   => reply.ino = 3 /\ reply.kind = "Directory"
                /\ reply.name = "hello.txt"
                   => reply.ino = 4 /\ reply.kind = "RegularFile"

\* C18 witness: the root was opened in the middle of a sync: the store
\* holds a row and the Albums job is inside an upsert.
RootIsFixedWitness ==
    /\ FreshListing
    /\ reply.ino = FIXED_INODE_ROOT
    /\ pending["Albums"] # NoCall
    /\ \E g \in GoogleIds : items[g] # NoRow

\* the row with the given inode, if there is one
RowAt(inode) ==
    {g \in GoogleIds : items[g] # NoRow /\ items[g].inode = inode}

\* C19: getattr of a known album gives kind directory and the current
\* number of its membership rows as size, getattr of a known media item
\* gives kind regular file and size 1024, and getattr of an inode that is
\* neither a fixed node nor in the store fails.
GetattrOfStoreItems ==
    reply.op = "getattr"
    => /\ \A g \in RowAt(reply.request) :
             /\ reply.ok
             /\ reply.ino = reply.request
             /\ items[g].type = "album"
                => /\ reply.kind = "Directory"
                   /\ reply.size =
                        Cardinality({p \in in_album : p[1] = g})
             /\ items[g].type = "media_item"
                => /\ reply.kind = "RegularFile"
                   /\ reply.size = 1024
       /\ (reply.request \notin FixedInodes /\ RowAt(reply.request) = {})
          => ~ reply.ok

\* C19 witness: getattr of an album answered size 1 after a media item was
\* made its member.
GetattrOfStoreItemsWitness ==
    /\ reply.op = "getattr"
    /\ reply.ok
    /\ AlbumAt(reply.request) # {}
    /\ reply.size = 1

\* C20: opendir of an inode that is not the root, albums/, media/ or a known
\* album fails and leaves the directory handle table as it was.
OpendirNeedsDirectory ==
    [][(/\ reply'.op = "opendir"
        /\ reply'.ino \notin {FIXED_INODE_ROOT, FIXED_INODE_ALBUMS,
                               FIXED_INODE_MEDIA}
        /\ AlbumAt(reply'.ino) = {})
       => ~ reply'.ok /\ open_dirs' = open_dirs]_vars

\* C20 witness: opendir failed for the inode of a media item.
OpendirNeedsDirectoryWitness ==
    /\ reply.op = "opendir"
    /\ ~ reply.ok
    /\ \E g \in RowAt(reply.ino) : items[g].type = "media_item"

(***************************************************************************)
(* Properties of open and of the snapshot a directory handle holds         *)
(***************************************************************************)
\* the media item row with the given inode, if there is one
MediaItemAt(inode) ==
    {g \in GoogleIds : items[g].type = "media_item" /\ items[g].inode = inode}

\* C21: open fails when the inode is not the diagnostic file and is not the
\* inode of a media item in the store (an album's inode or an unknown one);
\* every failed open, the one after a failed remote fetch included, leaves
\* the open-file table as it was.
OpenFailsWithoutHandle ==
    [][reply'.op = "open"
       => /\ (reply'.ino # FIXED_INODE_HELLO_WORLD
               /\ MediaItemAt(reply'.ino) = {}) => ~ reply'.ok
          /\ ~ reply'.ok => open_files' = open_files
          /\ open_dirs' = open_dirs]_vars

\* C21 witness: open of a media item in the store failed (the remote fetch
\* failed) while another file handle is open.
OpenFailsWithoutHandleWitness ==
    /\ reply.op = "open"
    /\ ~ reply.ok
    /\ MediaItemAt(reply.ino) # {}
    /\ DOMAIN open_files # {}

\* C22: the entries readdir returns for an open directory handle are
\* entries of the list opendir stored in the handle, each under the tag of
\* its position, and all of them for offset 0; the stored list is the one
\* opendir materialized and no step changes it while the handle is open,
\* so upserts between opendir and releasedir do not show in later readdir
\* calls.
ReaddirReadsSnapshot ==
    [][/\ \A fh \in DOMAIN open_dirs \cap DOMAIN open_dirs' :
             open_dirs'[fh] = open_dirs[fh]
       /\ (reply'.op = "opendir" /\ reply'.ok)
          => open_dirs'[reply'.fh] =
                ReadDirFhEntry(reply'.ino, opendir_entries(reply'.ino, TRUE))
       /\ (reply'.op = "readdir" /\ reply'.ok)
          => LET stored == open_dirs[reply'.fh].entries
             IN  /\ \A i \in DOMAIN reply'.entries :
                       LET e == reply'.entries[i]
                       IN  /\ e.offset \in DOMAIN stored
                           /\ stored[e.offset] = DirEntry(e.ino, e.kind, e.name)
                 /\ reply'.offset = 0
                    => Len(reply'.entries) = Len(stored)
                 /\ \E n \in 0..Len(reply'.entries) :
                       reply'.added = SubSeq(reply'.entries, 1, n)]_vars

\* C22 witness: readdir from offset 0 on a handle of album 101 returned
\* '.' and '..' only, although the album has a member by now.
ReaddirReadsSnapshotWitness ==
    /\ reply.op = "readdir"
    /\ reply.ok
    /\ reply.offset = 0
    /\ reply.ino \notin FixedInodes
    /\ Len(reply.entries) = 2
    /\ Len(media_items_in_album(items, in_album, reply.ino)) > 0

FsOps ==
    {"lookup", "getattr", "open", "read", "release", "opendir", "readdir",
     "releasedir"}

\* the columns of albums_and_media_item
RowColumns == {"type", "name", "inode", "last_remote_check"}

\* C23: a step that serves a filesystem request (lookup, getattr, open,
\* read, release, opendir, readdir, releasedir) leaves entity rows,
\* membership rows and the stable-id counter as they were; the bytes open
\* fetched are in the entry of the returned handle and in no row of the
\* store, and release takes that entry out of the table.
FsLeavesStoreAlone ==
    [][reply' # NoReply
       => /\ reply'.op \in FsOps
          /\ items' = items
          /\ in_album' = in_album
          /\ next_inode' = next_inode
          /\ \A g \in GoogleIds :
                items'[g] # NoRow => DOMAIN items'[g] = RowColumns
          /\ (reply'.op = "open" /\ reply'.ok)
             => /\ reply'.fh \notin DOMAIN open_files
                /\ \A g \in MediaItemAt(reply'.ino) :
                      open_files'[reply'.fh] =
                          ReadFhEntry(reply'.ino, RemoteContent(g))
          /\ (reply'.op = "release" /\ reply'.ok)
             => /\ reply'.fh \in DOMAIN open_files
                /\ reply'.fh \notin DOMAIN open_files'
                /\ \A fh \in DOMAIN open_files' :
                      open_files'[fh] = open_files[fh]]_vars

\* C23 witness: the handle of media item 102, whose content open fetched,
\* was released while the store holds a membership row.
FsLeavesStoreAloneWitness ==
    /\ reply.op = "release"
    /\ reply.ok
    /\ reply.ino = 102
    /\ open_files = <<>>
    /\ in_album # {}

(***************************************************************************)
(* Properties of the store's queries                                       *)
(***************************************************************************)
\* the inodes the store is queried for: reserved ones, every one the
\* counter can have handed out, and one it has not
QueryInodes == Inodes \cup {MaxSyncInode + 1}

\* the right sides of the membership rows of the album with inode i
MembersOf(rows, members, i) ==
    {m \in GoogleIds :
        \E a \in GoogleIds : /\ rows[a].type = "album"
                             /\ rows[a].inode = i
                             /\ <<a, m>> \in members}

\* C24: media_items_in_album(i) holds one record for each media item m
\* with a membership row (a, m), a the album with inode i, and nothing
\* else: it is empty when no album has inode i or the album has no
\* members, and no media item occurs twice in it, however often its pair
\* was upserted.
AlbumRosterExact ==
    \A i \in QueryInodes :
        LET result == media_items_in_album(items, in_album, i)
            roster == MembersOf(items, in_album, i)
        IN  /\ {result[k].id : k \in DOMAIN result} = roster
            /\ Len(result) = Cardinality(roster)
            /\ \A k \in DOMAIN result :
                  result[k] = row_to_item(items, result[k].id)

\* C24 witness: the upsert of a pair succeeded, the album has both media
\* items as members, and the query for the inode of a media item is empty.
AlbumRosterExactWitness ==
    /\ membership_result.called
    /\ membership_result.ok
    /\ HasRow("a1") /\ HasRow("m1")
    /\ Len(media_items_in_album(items, in_album, items["a1"].inode)) = 2
    /\ Len(media_items_in_album(items, in_album, items["m1"].inode)) = 0

\* the date-times of the records of one kind, as the store returns them
ChecksOfKind(rows, media_type) ==
    {row_to_item(rows, g).last_remote_check :
        g \in {h \in GoogleIds : rows[h].type = media_type}}

OtherKind(media_type) == IF media_type = "album" THEN "media_item" ELSE "album"

\* C25: last_updated_album and last_updated_media give none when the store
\* holds no record of their kind and otherwise the least last_remote_check
\* of the records of that kind; a finished upsert makes the result of its
\* kind the least of its own date-time (in whole seconds) and the records
\* of the other ids of that kind, whatever the replaced record held, and
\* leaves the result of the other kind as it was.
OldestCheckOfKind ==
    [][/\ \A media_type \in MediaTypes :
             last_updated_x(items', media_type) =
                 IF ChecksOfKind(items', media_type) = {} THEN {}
                 ELSE {MinOf(ChecksOfKind(items', media_type))}
       /\ \A j \in Jobs :
             (pending[j] # NoCall /\ pending'[j] = NoCall)
             => LET call == pending[j]
                    others == {row_to_item(items, g).last_remote_check :
                                 g \in {h \in GoogleIds :
                                           /\ h # call.id
                                           /\ items[h].type = call.type}}
                    own == Utc_timestamp(timestamp(call.last_remote_check))
                IN  /\ last_updated_x(items', call.type)
                         = {MinOf(others \cup {own})}
                    /\ last_updated_x(items', OtherKind(call.type))
                         = last_updated_x(items, OtherKind(call.type))]_vars

\* C25 witness: album a1 was upserted, then a2, then a1 again; a2 now is
\* the oldest album and the result is its time, later than the epoch.
OldestCheckOfKindWitness ==
    /\ HasRow("a1") /\ HasRow("a2")
    /\ Cardinality({p \in ever : p[1] = "a1"}) = 2
    /\ items["a2"].inode < items["a1"].inode
    /\ items["a2"].last_remote_check > 0
    /\ last_updated_album(items) = {Utc_timestamp(items["a2"].last_remote_check)}
    /\ last_updated_media(items) = {}

\* result lists every record of the given kind once, in ascending order
\* of remote id, and nothing else
ListsKindInIdOrder(result, media_type) ==
    /\ \A g \in GoogleIds :
          items[g].type = media_type
          <=> \E k \in DOMAIN result : result[k].id = g
    /\ \A k, l \in DOMAIN result :
          k < l => IdRank(result[k].id) < IdRank(result[l].id)
    /\ \A k \in DOMAIN result :
          LET row == items[result[k].id]
          IN  /\ result[k].type = media_type
              /\ result[k].name = row.name
              /\ result[k].inode = row.inode
              /\ result[k].last_remote_check
                    = Utc_timestamp(row.last_remote_check)

\* C26: media_items() and albums() return every record of their kind
\* exactly once and no record of the other kind, in ascending order of
\* remote id; the rows fix the result, so two calls with no write between
\* them return the same sequence.
ListingsInIdOrder ==
    /\ ListsKindInIdOrder(media_items(items), "media_item")
    /\ ListsKindInIdOrder(albums(items), "album")

\* C26 witness: m2 was inserted before m1 and an album is in the store;
\* media_items() returns m1, m2 and albums() the album.
ListingsInIdOrderWitness ==
    /\ HasRow("m1") /\ HasRow("m2")
    /\ items["m2"].inode < items["m1"].inode
    /\ Len(media_items(items)) = 2
    /\ media_items(items)[1].id = "m1"
    /\ Len(albums(items)) = 1

\* the number of rows in albums_and_media_item
RowCount(rows) == Cardinality({g \in GoogleIds : rows[g] # NoRow})

\* what the write of a re-upsert does, given the date-time its record has
\* to carry afterwards
ReupsertUpdates(carried(_)) ==
    \A j \in Jobs :
        (/\ pending[j] # NoCall
         /\ pending'[j] = NoCall
         /\ HasRow(pending[j].id))
        => LET call == pending[j]
               record == row_to_item(items', call.id)
           IN  /\ RowCount(items') = RowCount(items)
               /\ record.name = call.name
               /\ record.type = call.type
               /\ record.last_remote_check = carried(call.last_remote_check)
               /\ \A g \in GoogleIds \ {call.id} : items'[g] = items[g]

\* C27: re-upserting a known remote_id with a new name leaves the number
\* of records unchanged, the record of that remote_id afterwards carries
\* the new name and the new timestamp, and the records of all other
\* remote_ids are unchanged.
ReupsertCarriesTimestamp ==
    [][ReupsertUpdates(LAMBDA t : t)]_vars

\* C27 as amended: as above, but the record carries the new timestamp cut
\* down to whole seconds.
ReupsertCarriesSeconds ==
    [][ReupsertUpdates(LAMBDA t : Utc_timestamp(timestamp(t)))]_vars

\* C27 witness: a1 was upserted twice, a2 once and before a1's second
\* upsert; a1's record has the name n2 and a time later than the epoch.
ReupsertCarriesSecondsWitness ==
    /\ HasRow("a1") /\ HasRow("a2")
    /\ Cardinality({p \in ever : p[1] = "a1"}) = 2
    /\ items["a2"].inode < items["a1"].inode
    /\ items["a1"].name = "n2"
    /\ items["a1"].last_remote_check > 0
    /\ \A j \in Jobs : pending[j] = NoCall

(***************************************************************************)
(* Properties of the synchronizer                                          *)
(***************************************************************************)
\* the job's pass ended in this step
PassEnds(j) == job[j].pc # "idle" /\ job'[j].pc = "idle"

\* C28: when an albums pass completes and no call of it failed, the store
\* holds the membership row (a, m) for every album a of the remote listing
\* and every item m of a's remote roster.
SyncedRosterHeld ==
    [][(/\ PassEnds("Albums")
        /\ job'["Albums"].outcome = "completed"
        /\ ~ job'["Albums"].faulted)
       => \A k \in DOMAIN AlbumIds :
             \A r \in DOMAIN RemoteRoster(AlbumIds[k]) :
                 <<AlbumIds[k], RemoteRoster(AlbumIds[k])[r]>> \in in_album'
      ]_vars

\* C29: a pass that hits a remote fault or a storage fault (in
\* upsert_album, upsert_media_item, upsert_media_item_in_album or exists)
\* ends with Ok or Err and never with a panic, and leaves the job idle, so
\* that its next pass can start.
FaultEndsPass ==
    \A j \in Jobs :
        /\ job[j].outcome # "panicked"
        /\ job[j].outcome \in {"completed", "returned"} => job[j].pc = "idle"

\* C36: once a pass has hit a fault (a remote fault or a storage fault on
\* an upsert), the pass is abandoned: no later step of that pass allocates
\* an id or writes a record or a membership row.
FaultAbandonsPass ==
    [][\A j \in Jobs :
          (job[j].faulted /\ job[j].pc # "idle" /\ job'[j] # job[j])
          => UNCHANGED <<items, in_album, next_inode, pending>>
      ]_vars

\* C40: a job's initial delay depends on the cache: it is longer when the
\* cache holds data than when it holds none; the recurring interval is
\* fixed.
DelayDependsOnCache ==
    \A j \in Jobs :
        /\ (\E id \in GoogleIds : items[id] # NoRow)
           => delay(j, items) > delay(j, [id \in GoogleIds |-> NoRow])
        /\ interval(j) > 0

\* the cache's albums, media items and membership rows equal the remote
\* catalogue
CacheEqualsRemote ==
    /\ \A j \in Jobs : \A id \in JobIds(j) :
          /\ items[id] # NoRow
          /\ items[id].type = JobMediaType(j)
          /\ items[id].name = RemoteName(id)
    /\ in_album = {p \in SeqRange(AlbumIds) \X SeqRange(MediaIds) :
                      p[2] \in SeqRange(RemoteRoster(p[1]))}

\* C39: with an unchanging remote catalogue, once the cache equals it, the
\* cache equals it again whenever both jobs have ended fault-free passes.
SyncedStaysSynced ==
    (\A j \in Jobs : /\ job[j].pc = "idle"
                     /\ ~ job[j].faulted
                     /\ job[j].outcome \in {"none", "completed"})
    => CacheEqualsRemote

\* the state SpecConverge starts from is one the passes produce: a
\* fault-free media pass followed by a fault-free albums pass
SyncedIsReached ==
    /\ CacheEqualsRemote
    /\ \A j \in Jobs : job[j].pc = "idle" /\ job[j].outcome = "completed"
                       /\ ~ job[j].faulted
    /\ items["m1"].inode = 101 /\ items["m2"].inode = 102
    /\ items["a1"].inode = 103 /\ items["a2"].inode = 104

(***************************************************************************)
(* Properties of the error path                                            *)
(***************************************************************************)
\* a fault was raised while the request of this reply was served
Faulted(r) == "cause" \in DOMAIN r

\* C30: every request that failed, or during which a fault was raised,
\* reaches the transport with the error code ENOENT, whatever the cause
\* (storage fault, lock fault, not found, remote fault).
FaultsReportENOENT ==
    (reply # NoReply /\ (~ reply.ok \/ Faulted(reply)))
        => ("code" \in DOMAIN reply /\ reply.code = ENOENT)

\* C38: once item_by_inode(s) resolves to the entity with remote id r, it
\* resolves s to r after every further upsert, re-upserts of r included.
InodeKeepsResolving ==
    [][\A s \in (FIRST_INODE_ROW + 1)..MaxInode :
          \A item \in item_by_inode(items, s) :
              \E later \in item_by_inode(items', s) : later.id = item.id
      ]_vars

(***************************************************************************)
(* Properties of opening the store again                                   *)
(***************************************************************************)
\* C31: opening the store again leaves records and membership rows as they
\* are, the counter table has exactly one row at all times, and every
\* allocation returns an id greater than every id allocated before it.
ReopenIsIdempotent ==
    [][/\ next_inode' # next_inode /\ allocated' = allocated
          => items' = items /\ in_album' = in_album
       /\ Len(next_inode') = 1
       /\ allocated' # allocated
          => \A i \in DOMAIN allocated :
                 allocated[i] < allocated'[Len(allocated')]
      ]_vars

(***************************************************************************)
(* Properties of locking                                                   *)
(***************************************************************************)
\* the handle of a successful open or opendir is the smallest number from
\* base(ino) on that is not open in the table of its kind
HandleIsSmallestFrom(base(_)) ==
    (reply = NoReply /\ reply'.op \in {"open", "opendir"} /\ reply'.ok)
    => LET fhs == IF reply'.op = "open" THEN open_files ELSE open_dirs
           fh == reply'.fh
       IN  /\ fh >= base(reply'.ino)
           /\ fh \notin DOMAIN fhs
           /\ \A k \in base(reply'.ino)..(fh - 1) : k \in DOMAIN fhs

InRemoteCall(t) ==
    Running(t) /\ Ins(t).op = "call" /\ Ins(t).kind = "remote"

\* C33: no thread holds the store's lock while its call to the remote
\* library (album listing, media listing, album roster, content fetch) is
\* in progress.
NoStoreLockInRemoteCall ==
    \A t \in Threads : InRemoteCall(t) => mutex["db"] # t

\* C33 witness: the filesystem thread is fetching content for open, after
\* its store query, while the albums job is inside a store call.
NoStoreLockInRemoteCallWitness ==
    /\ InRemoteCall("fs")
    /\ thread["fs"].prog = "open"
    /\ mutex["db"] = "Albums"
    /\ Running("Albums") /\ Ins("Albums").op = "call"

\* the thread waits for a Mutex that another thread holds
Waits(t, m) ==
    /\ Running(t) /\ Ins(t).op = "lock" /\ Ins(t).m = m
    /\ mutex[m] \notin {Free, t}

UpsertHoldsLock ==
    [][\A j \in Jobs : pending[j] # NoCall => pending'[j] = NoCall]_vars

\* C37: an opendir during which a store query failed reports the error
\* outcome and allocates no directory handle.
OpendirFaultGivesNoHandle ==
    [][(/\ reply = NoReply
        /\ reply'.op = "opendir"
        /\ Faulted(reply'))
       => ~ reply'.ok /\ open_dirs' = open_dirs
      ]_vars

(***************************************************************************)
(* Specification                                                           *)
(***************************************************************************)
Init ==
    /\ items = [id \in GoogleIds |-> NoRow]
    /\ in_album = {}
    /\ next_inode = <<FIRST_INODE_ROW>>
    /\ pending = [j \in Jobs |-> NoCall]
    /\ allocated = <<>>
    /\ ever = {}
    /\ membership_result = NoResult
    /\ open_files = <<>>
    /\ open_dirs = <<>>
    /\ reply = NoReply
    /\ job = [j \in Jobs |-> IdleJob]
    /\ mutex = [m \in Mutexes |-> Free]
    /\ thread = [t \in Threads |-> IdleThread]

UpsertMediaItem ==
    /\ CounterBelow(MaxInode)
    /\ \E id \in SeqRange(MediaIds), name \in Names, t \in Times :
        upsert_media_item(id, name, t)
    /\ UNCHANGED job

UpsertAlbum ==
    /\ CounterBelow(MaxInode)
    /\ \E id \in SeqRange(AlbumIds), name \in Names, t \in Times :
        upsert_album(id, name, t)
    /\ UNCHANGED job

UpsertX ==
    /\ \E j \in Jobs : upsert_x(j)
    /\ UNCHANGED job

UpsertMediaItemInAlbum ==
    /\ \E a \in SeqRange(AlbumIds), m \in SeqRange(MediaIds) :
          upsert_media_item_in_album(a, m)
    /\ UNCHANGED job

GetAndUpdateInode ==
    /\ CounterBelow(MaxInode)
    /\ \E j \in Jobs : get_and_update_inode(j)
    /\ UNCHANGED job

Next ==
    \/ UpsertMediaItem
    \/ UpsertAlbum
    \/ UpsertX
    \/ UpsertMediaItemInAlbum
    \/ GetAndUpdateInode

Spec == Init /\ [][Next]_vars

(***************************************************************************)
(* Specification of lookup against a store that the jobs fill              *)
(***************************************************************************)
\* the jobs' writes, all stamped with the same time
SyncMediaItem ==
    /\ CounterBelow(MaxSyncInode)
    /\ \E id \in SeqRange(MediaIds), name \in Names :
          upsert_media_item(id, name, 1)
    /\ UNCHANGED job

SyncAlbum ==
    /\ CounterBelow(MaxSyncInode)
    /\ \E id \in SeqRange(AlbumIds), name \in Names :
          upsert_album(id, name, 1)
    /\ UNCHANGED job

Lookup == \E parent \in Inodes, name \in LookupNames : lookup(parent, name)

NextLookup ==
    \/ SyncMediaItem
    \/ SyncAlbum
    \/ UpsertX
    \/ UpsertMediaItemInAlbum
    \/ Lookup
    \/ SendReply

SpecLookup == Init /\ [][NextLookup]_vars

(***************************************************************************)
(* Specification of the handle tables: the filesystem is mounted over a    *)
(* store that holds one album and two media items; the Albums job adds     *)
(* memberships while files and directories are opened, read and released.  *)
(***************************************************************************)
\* the row a finished upsert left in albums_and_media_item
StoredRow(media_type, name, inode) ==
    ReplacedRow([type |-> media_type, name |-> name, inode |-> inode,
                 last_remote_check |-> 1])

InitMounted ==
    /\ items = [id \in GoogleIds |->
                  IF id = "a1" THEN StoredRow("album", "n1", 101)
                  ELSE IF id = "m1" THEN StoredRow("media_item", "n1", 102)
                  ELSE IF id = "m2" THEN StoredRow("media_item", "n2", 103)
                  ELSE NoRow]
    /\ in_album = {}
    /\ next_inode = <<103>>
    /\ pending = [j \in Jobs |-> NoCall]
    /\ allocated = <<101, 102, 103>>
    /\ ever = {<<"a1", 101>>, <<"m1", 102>>, <<"m2", 103>>}
    /\ membership_result = NoResult
    /\ open_files = <<>>
    /\ open_dirs = <<>>
    /\ reply = NoReply
    /\ job = [j \in Jobs |-> IdleJob]
    /\ mutex = [m \in Mutexes |-> Free]
    /\ thread = [t \in Threads |-> IdleThread]

\* the handle numbers requests are made for: one more than can be open
FileHandles == 0..MaxOpen

DirHandles == 0..MaxOpen

\* the inode a request names for a handle: the one the handle was opened
\* for, or another one
HandleInodes(fhs, fh, other) ==
    {other} \cup {entry.inode : entry \in OpenFileHandles_get(fhs, fh)}

ReadOffsets == {0, 1, 3}

ReadSizes == {2, 16}

\* the kernel resumes a listing with 0 or with a tag it was given
ReaddirOffsets(fh) ==
    {0} \cup UNION {1..Len(entry.entries) :
                       entry \in OpenFileHandles_get(open_dirs, fh)}

\* the number of handles that are open
OpenCount == Cardinality(DOMAIN open_files) + Cardinality(DOMAIN open_dirs)

Open ==
    /\ OpenCount < MaxOpen
    /\ \E ino \in Inodes : open(ino)

Read ==
    \E fh \in FileHandles :
        \E ino \in HandleInodes(open_files, fh, FIXED_INODE_HELLO_WORLD) :
            \E offset \in ReadOffsets, size \in ReadSizes :
                read(ino, fh, offset, size)

Release ==
    \E fh \in FileHandles :
        \E ino \in HandleInodes(open_files, fh, FIXED_INODE_HELLO_WORLD) :
            release(ino, fh)

Opendir ==
    /\ OpenCount < MaxOpen
    /\ \E ino \in Inodes : opendir(ino)

Readdir ==
    \E fh \in DirHandles :
        \E ino \in HandleInodes(open_dirs, fh, FIXED_INODE_ROOT) :
            \E offset \in ReaddirOffsets(fh), room \in 1..MaxReply :
                RustFilesystemReal_readdir(ino, fh, offset, room)

Releasedir ==
    \E fh \in DirHandles :
        \E ino \in HandleInodes(open_dirs, fh, FIXED_INODE_ROOT) :
            releasedir(ino, fh)

NextHandles ==
    \/ UpsertMediaItemInAlbum
    \/ Open
    \/ Read
    \/ Release
    \/ Opendir
    \/ Readdir
    \/ Releasedir
    \/ SendReply

SpecHandles == InitMounted /\ [][NextHandles]_vars

(***************************************************************************)
(* Specification of listings: both jobs fill the store while directories   *)
(* are opened and released and names and attributes are looked up.         *)
(***************************************************************************)
ListAlbum ==
    /\ CounterBelow(MaxListInode)
    /\ \E id \in SeqRange(AlbumIds), name \in Names :
          upsert_album(id, name, 1)
    /\ UNCHANGED job

ListMediaItem ==
    /\ CounterBelow(MaxListInode)
    /\ \E id \in SeqRange(MediaIds), name \in Names :
          upsert_media_item(id, name, 1)
    /\ UNCHANGED job

\* the inodes requests are made for in this specification
ListInodes == FixedInodes \cup ((FIRST_INODE_ROW + 1)..(MaxListInode + 1))

ListOpendir ==
    /\ Cardinality(DOMAIN open_dirs) < MaxListings
    /\ \E ino \in ListInodes : opendir(ino)

ListReleasedir ==
    \E fh \in DOMAIN open_dirs : releasedir(open_dirs[fh].inode, fh)

LookupRoot == \E name \in LookupNames : lookup(FIXED_INODE_ROOT, name)

NextListing ==
    \/ ListAlbum
    \/ ListMediaItem
    \/ UpsertX
    \/ UpsertMediaItemInAlbum
    \/ LookupRoot
    \/ ListOpendir
    \/ ListReleasedir
    \/ SendReply

SpecListing == Init /\ [][NextListing]_vars

(***************************************************************************)
(* Specification of attributes: both jobs fill the store while attributes  *)
(* are asked for.                                                          *)
(***************************************************************************)
Getattr == \E ino \in Inodes : getattr(ino)

NextAttr ==
    \/ SyncMediaItem
    \/ SyncAlbum
    \/ UpsertX
    \/ UpsertMediaItemInAlbum
    \/ Getattr
    \/ SendReply

SpecAttr == Init /\ [][NextAttr]_vars

(***************************************************************************)
(* Specification of the whole filesystem operation layer over the mounted  *)
(* store: every operation of the layer, and the Albums job's memberships.  *)
(***************************************************************************)
NextFs ==
    \/ UpsertMediaItemInAlbum
    \/ Lookup
    \/ Getattr
    \/ Open
    \/ Read
    \/ Release
    \/ Opendir
    \/ Readdir
    \/ Releasedir
    \/ SendReply

SpecFs == InitMounted /\ [][NextFs]_vars
(***************************************************************************)
(* Specification of timestamps: both jobs upsert with names and times of   *)
(* their choice.                                                           *)
(***************************************************************************)
StampTimes == 1..MaxStampTime

StampMediaItem ==
    /\ CounterBelow(MaxStampInode)
    /\ \E id \in SeqRange(MediaIds), name \in Names, t \in StampTimes :
          upsert_media_item(id, name, t)
    /\ UNCHANGED job

StampAlbum ==
    /\ CounterBelow(MaxStampInode)
    /\ \E id \in SeqRange(AlbumIds), name \in Names, t \in StampTimes :
          upsert_album(id, name, t)
    /\ UNCHANGED job

NextStamps ==
    \/ StampMediaItem
    \/ StampAlbum
    \/ UpsertX

SpecStamps == Init /\ [][NextStamps]_vars
(***************************************************************************)
(* Specification of the synchronizer: each job runs its passes over the    *)
(* remote library, any call to the remote library or the store may fail.   *)
(***************************************************************************)
UpdateListing ==
    \E j \in Jobs : job[j].passes < MaxPasses /\ update_listing(j)

UpdateUpsert == \E j \in Jobs : update_upsert(j)

UpdateWrite == \E j \in Jobs : update_write(j)

UpdateRoster == update_roster("Albums")

UpdateExists == update_exists("Albums")

UpdateInsert == update_insert("Albums")

NextSync ==
    \/ UpdateListing
    \/ UpdateUpsert
    \/ UpdateWrite
    \/ UpdateRoster
    \/ UpdateExists
    \/ UpdateInsert

SpecSync == Init /\ [][NextSync]_vars
(***************************************************************************)
(* Specification of the error path: requests on a mounted store, where a   *)
(* store call may fail and a job's call to the remote library may fail or  *)
(* panic.                                                                  *)
(***************************************************************************)
OpenFaulty ==
    /\ OpenCount < MaxFaultOpen
    /\ \E ino \in Inodes : open(ino)

OpendirFaulty ==
    /\ OpenCount < MaxFaultOpen
    /\ \E ino \in Inodes : opendir(ino)

StoreFault ==
    \E op \in FsOps, ino \in Inodes, db_error \in DbErrors :
        store_fault(op, ino, db_error)

OpendirListingFault ==
    /\ OpenCount < MaxFaultOpen
    /\ \E ino \in Inodes, db_error \in DbErrors :
           opendir_listing_fault(ino, db_error)

NextFaults ==
    \/ UpdateListing
    \/ StoreFault
    \/ OpendirListingFault
    \/ Lookup
    \/ Getattr
    \/ OpenFaulty
    \/ Read
    \/ Release
    \/ OpendirFaulty
    \/ Readdir
    \/ Releasedir
    \/ SendReply

SpecFaults == InitMounted /\ [][NextFaults]_vars
(***************************************************************************)
(* Specification of a store that is opened again between upserts.          *)
(***************************************************************************)
TryNew ==
    /\ Len(next_inode) <= MaxReopens
    /\ try_new
    /\ UNCHANGED job

ReopenUpsertMediaItem ==
    /\ CounterBelow(MaxReopenInode)
    /\ \E id \in SeqRange(MediaIds), name \in Names, t \in Times :
          upsert_media_item(id, name, t)
    /\ UNCHANGED job

ReopenUpsertAlbum ==
    /\ CounterBelow(MaxReopenInode)
    /\ \E id \in SeqRange(AlbumIds), name \in Names, t \in Times :
          upsert_album(id, name, t)
    /\ UNCHANGED job

NextReopen ==
    \/ TryNew
    \/ ReopenUpsertMediaItem
    \/ ReopenUpsertAlbum
    \/ UpsertX
    \/ UpsertMediaItemInAlbum

SpecReopen == Init /\ [][NextReopen]_vars
(***************************************************************************)
(* Specification of the synchronizer on a store that equals the remote     *)
(* catalogue: the state after a media pass and then an albums pass, both   *)
(* fault-free, on the empty store.                                         *)
(***************************************************************************)
InitSynced ==
    /\ items = [id \in GoogleIds |->
                  ReplacedRow([type |-> IF id \in SeqRange(AlbumIds)
                                        THEN "album" ELSE "media_item",
                               name |-> RemoteName(id),
                               inode |-> IF id = "m1" THEN 101
                                         ELSE IF id = "m2" THEN 102
                                         ELSE IF id = "a1" THEN 103
                                         ELSE 104,
                               last_remote_check |-> SyncTime])]
    /\ in_album = {p \in SeqRange(AlbumIds) \X SeqRange(MediaIds) :
                      p[2] \in SeqRange(RemoteRoster(p[1]))}
    /\ next_inode = <<104>>
    /\ pending = [j \in Jobs |-> NoCall]
    /\ allocated = <<101, 102, 103, 104>>
    /\ ever = {<<"m1", 101>>, <<"m2", 102>>, <<"a1", 103>>, <<"a2", 104>>}
    /\ membership_result = NoResult
    /\ open_files = <<>>
    /\ open_dirs = <<>>
    /\ reply = NoReply
    /\ job = [j \in Jobs |-> IdleJob]
    /\ mutex = [m \in Mutexes |-> Free]
    /\ thread = [t \in Threads |-> IdleThread]

SpecConverge == InitSynced /\ [][NextSync]_vars
(***************************************************************************)
(* Specification of the locks: the two jobs run their passes and the       *)
(* filesystem thread serves requests, each taking and dropping the two     *)
(* Mutexes as its operation prescribes.                                    *)
(***************************************************************************)
PassBegins == \E j \in Jobs : thread_begins(j, j)

RequestBegins == \E op \in LockingOps : thread_begins("fs", op)

MutexLock == \E t \in Threads : mutex_lock(t)

CallReturns == \E t \in Threads : call_returns(t)

MutexUnlock == \E t \in Threads : mutex_unlock(t)

NextLocks ==
    \/ PassBegins
    \/ RequestBegins
    \/ MutexLock
    \/ CallReturns
    \/ MutexUnlock

SpecLocks == Init /\ [][NextLocks]_vars

\* calls return and dropped guards take effect (weak fairness); a thread
\* that waits for a Mutex gets it once it is free often enough (strong
\* fairness): passes are hours apart, so no thread re-takes a Mutex forever
\* ahead of a waiting one
SpecLocksFair ==
    /\ SpecLocks
    /\ \A t \in Threads :
          /\ SF_vars(mutex_lock(t))
          /\ WF_vars(call_returns(t))
          /\ WF_vars(mutex_unlock(t))
====
